---- MODULE Spec2Model ----
(***************************************************************************)
(* Model of the WebtoonColorizer pipeline (colorizer.js): stitching,       *)
(* split-point detection, segmentation, retry/fallback around the external *)
(* colorization call, black restoration, reassembly and re-slicing.        *)
(*                                                                         *)
(* Each component of the pipeline has one state variable (a record of the  *)
(* locals of the function it models) and one specification that draws the *)
(* function's inputs in its initial states.                                *)
(***************************************************************************)
EXTENDS Integers, Sequences, FiniteSets, TLC

VARIABLES split, resl, det, retry, run, rb, fit, blk

vars == <<split, resl, det, retry, run, rb, fit, blk>>

Off == [pc |-> "off"]

\* ------------------------------------------------------------------------
\* Generic helpers
\* ------------------------------------------------------------------------

RECURSIVE SumSeq(_)
SumSeq(s) == IF s = <<>> THEN 0 ELSE Head(s) + SumSeq(Tail(s))

Min(a, b) == IF a <= b THEN a ELSE b

Max(a, b) == IF a >= b THEN a ELSE b

\* All sequences over S with length in lo..hi
SeqsOf(S, lo, hi) == UNION { [1..n -> S] : n \in lo..hi }

\* ------------------------------------------------------------------------
\* Step 3: splitAtPoints  (colorizer.js 572-612)
\* ------------------------------------------------------------------------

MIN_SEGMENT_H == 100

\* bounds = [0, ...cuts, totalH]
Bounds(cuts, totalH) == <<0>> \o cuts \o <<totalH>>

\* for (i = 0; i < bounds.length - 1; i++) { ...; if (h <= 0) continue; push }
RECURSIVE BuildSegments(_, _, _)
BuildSegments(bounds, i, acc) ==
  IF i > Len(bounds) - 1 THEN acc
  ELSE LET startY == bounds[i]
           endY   == bounds[i + 1]
           h      == endY - startY
       IN  IF h <= 0
           THEN BuildSegments(bounds, i + 1, acc)
           ELSE BuildSegments(bounds, i + 1,
                  Append(acc, [startY |-> startY, endY |-> endY, height |-> h]))

\* if (seg.height >= MIN_SEGMENT_H) return true;
KeepsSegmentNever(seg) == TRUE

KeepsSegment(seg) == seg.height >= MIN_SEGMENT_H

\* The body of the filter callback for an undersized segment at (1-based)
\* index i: the objects of the array being filtered are mutated in place.
MergeInto(segs, i) ==
  IF i + 1 <= Len(segs)
  THEN [segs EXCEPT ![i + 1] = [startY |-> segs[i].startY,
                                endY   |-> segs[i + 1].endY,
                                height |-> segs[i + 1].endY - segs[i].startY]]
  ELSE IF i > 1
  THEN [segs EXCEPT ![i - 1] = [startY |-> segs[i - 1].startY,
                                endY   |-> segs[i].endY,
                                height |-> segs[i].endY - segs[i - 1].startY]]
  ELSE segs

\* segments.filter((seg, i) => ...): visits the indices in order; `kept` are
\* the indices whose callback returned true.  The result holds references to
\* the kept objects, so it shows the mutations made after they were kept.
RECURSIVE MergeFilter(_, _, _)
MergeFilter(segs, i, kept) ==
  IF i > Len(segs) THEN [k \in 1..Len(kept) |-> segs[kept[k]]]
  ELSE IF KeepsSegment(segs[i])
       THEN MergeFilter(segs, i + 1, Append(kept, i))
       ELSE MergeFilter(MergeInto(segs, i), i + 1, kept)

\* Extraction: one result per merged segment; the buffer is the rows
\* [top, top + height) of the stitched strip.
ExtractSegments(segs, width) ==
  [k \in 1..Len(segs) |->
     [buffer |-> [top |-> segs[k].startY, height |-> segs[k].height],
      startY |-> segs[k].startY,
      height |-> segs[k].height,
      width  |-> width]]

splitAtPoints(width, totalH, splitPoints) ==
  LET cuts     == [k \in 1..Len(splitPoints) |-> splitPoints[k].midPoint]
      segments == BuildSegments(Bounds(cuts, totalH), 1, <<>>)
  IN  ExtractSegments(MergeFilter(segments, 1, <<>>), width)

\* ------------------------------------------------------------------------
\* Step 5: reassembleSegments  (colorizer.js 999-1022)
\* ------------------------------------------------------------------------

\* composites: each segment's buffer at the running offset y
RECURSIVE Composites(_, _, _)
Composites(segments, k, y) ==
  IF k > Len(segments) THEN <<>>
  ELSE <<[input |-> segments[k].buffer, top |-> y]>>
       \o Composites(segments, k + 1, y + segments[k].height)

reassembleSegments(segments, width) ==
  [width      |-> width,
   height     |-> SumSeq([k \in 1..Len(segments) |-> segments[k].height]),
   composites |-> Composites(segments, 1, 0)]

\* ------------------------------------------------------------------------
\* Specification of the segmenter: the inputs of splitAtPoints are drawn
\* as the heights of the parts between consecutive cuts.
\* ------------------------------------------------------------------------

MaxParts == 3

PartHeights == {0, 30, 60, 99, 100, 130}

StripWidth == 50

RECURSIVE PrefixSums(_, _)
PrefixSums(hs, acc) ==
  IF hs = <<>> THEN <<>>
  ELSE <<acc + Head(hs)>> \o PrefixSums(Tail(hs), acc + Head(hs))

\* the cut rows of a list of part heights: every partial sum but the last
CutsOf(hs) == SubSeq(PrefixSums(hs, 0), 1, Len(hs) - 1)

SplitInputs ==
  { [totalH |-> SumSeq(hs),
     splitPoints |-> [k \in 1..(Len(hs) - 1) |-> [midPoint |-> CutsOf(hs)[k]]]]
    : hs \in { s \in SeqsOf(PartHeights, 1, MaxParts) : SumSeq(s) > 0 } }

SplitInit ==
  /\ resl = Off
  /\ det = Off
  /\ retry = Off
  /\ run = Off
  /\ rb = Off /\ fit = Off /\ blk = Off
  /\ \E inp \in SplitInputs :
    split = [pc |-> "start", width |-> StripWidth, totalH |-> inp.totalH,
             splitPoints |-> inp.splitPoints,
             segments |-> <<>>, reassembled |-> [width |-> 0, height |-> 0, composites |-> <<>>]]

notSplit == <<resl, det, retry, run, rb, fit, blk>>

SplitAct ==
  /\ UNCHANGED notSplit
  /\ split.pc = "start"
  /\ split' = [split EXCEPT !.pc = "split",
                 !.segments = splitAtPoints(split.width, split.totalH, split.splitPoints)]

ReassembleAct ==
  /\ UNCHANGED notSplit
  /\ split.pc = "split"
  /\ split' = [split EXCEPT !.pc = "reassembled",
                 !.reassembled = reassembleSegments(split.segments, split.width)]

SplitNext == SplitAct \/ ReassembleAct

SpecSplit == SplitInit /\ [][SplitNext]_vars

\* Rows of the strip held by the k-th emitted segment
SegRows(seg) == seg.startY .. (seg.startY + seg.height - 1)

RawSegments == BuildSegments(
  Bounds([k \in 1..Len(split.splitPoints) |-> split.splitPoints[k].midPoint],
         split.totalH), 1, <<>>)

SplitDone == split.pc \in {"split", "reassembled"}

\* C1: after the merge the segments partition the rows [0, totalH): every
\* row belongs to exactly one segment, the heights sum to totalH, and the
\* reassembled strip has height totalH.
C1_SegmentsPartitionStrip ==
  /\ SplitDone =>
       /\ \A r \in 0..(split.totalH - 1) :
            Cardinality({k \in 1..Len(split.segments) : r \in SegRows(split.segments[k])}) = 1
       /\ SumSeq([k \in 1..Len(split.segments) |-> split.segments[k].height]) = split.totalH
  /\ split.pc = "reassembled" => split.reassembled.height = split.totalH

\* C9: after the merge no emitted segment is shorter than MIN_SEGMENT_H,
\* except when it is the only segment.
C9_NoUndersizedSegment ==
  SplitDone =>
    \A k \in 1..Len(split.segments) :
      split.segments[k].height >= MIN_SEGMENT_H \/ Len(split.segments) = 1

\* an undersized raw segment was merged away and several segments remain
C9_Witness ==
  /\ split.pc = "split"
  /\ Len(split.segments) >= 2
  /\ \E k \in 1..Len(RawSegments) : RawSegments[k].height < MIN_SEGMENT_H

\* ------------------------------------------------------------------------
\* Step 6: reslice  (colorizer.js 1026-1069)
\* ------------------------------------------------------------------------

DEFAULT_OUTPUT_W == 800

DEFAULT_OUTPUT_H == 1280

\* sharp(reassembledBuf).extract({left: 0, top, width, height: extractH}):
\* a bitmap holding rows [top, top + extractH) of the strip, not padded
ExtractSlice(top, width, extractH) ==
  [width |-> width, height |-> extractH, top |-> top, rows |-> extractH, pad |-> 0]

\* if (extractH < sliceH): composite onto an opaque black width x sliceH canvas
PadSliceNever(slice, sliceH) == slice

PadSlice(slice, sliceH) ==
  IF slice.height < sliceH
  THEN [slice EXCEPT !.height = sliceH, !.pad = sliceH - slice.height]
  ELSE slice

\* if (width !== OUTPUT_W || sliceH !== OUTPUT_H) resize(OUTPUT_W, OUTPUT_H, fill)
ResizeSliceNever(slice, width, sliceH, outW, outH) ==
  [slice EXCEPT !.height = sliceH]

ResizeSlice(slice, width, sliceH, outW, outH) ==
  IF width # outW \/ sliceH # outH
  THEN [slice EXCEPT !.width = outW, !.height = outH]
  ELSE slice

\* One pass of the loop body for slice i (1-based), given the running offset
\* top; the loop breaks when nothing of the strip remains.
RECURSIVE ResliceLoop(_, _, _, _, _, _, _)
ResliceLoop(stripH, width, originalHeights, outW, outH, i, top) ==
  IF i > Len(originalHeights) THEN <<>>
  ELSE LET sliceH    == originalHeights[i]
           remaining == stripH - top
       IN  IF remaining <= 0 THEN <<>>
           ELSE LET extractH == Min(sliceH, remaining)
                    slice    == ResizeSlice(
                                  PadSlice(ExtractSlice(top, width, extractH), sliceH),
                                  width, sliceH, outW, outH)
                IN  <<slice>> \o ResliceLoop(stripH, width, originalHeights,
                                             outW, outH, i + 1, top + sliceH)

reslice(stripH, width, originalHeights, outW, outH) ==
  ResliceLoop(stripH, width, originalHeights, outW, outH, 1, 0)

\* ------------------------------------------------------------------------
\* Specification of the re-slicer: input slice heights, the height of the
\* reassembled strip and the configured output size are drawn in Init.
\* ------------------------------------------------------------------------

MaxSlices == 3

MaxSliceH == 3

ResliceInputs ==
  { [originalHeights |-> hs, stripH |-> sh, OUTPUT_W |-> ow, OUTPUT_H |-> oh]
    : hs \in SeqsOf(1..MaxSliceH, 1, MaxSlices),
      sh \in 1..(MaxSlices * MaxSliceH + 1),
      ow \in {StripWidth, DEFAULT_OUTPUT_W},
      oh \in {MaxSliceH, DEFAULT_OUTPUT_H} }

ResliceInit ==
  /\ split = Off
  /\ det = Off
  /\ retry = Off
  /\ run = Off
  /\ rb = Off /\ fit = Off /\ blk = Off
  /\ \E inp \in ResliceInputs :
       /\ inp.stripH <= SumSeq(inp.originalHeights) + 1
       /\ resl = [pc |-> "start", width |-> StripWidth,
                  originalHeights |-> inp.originalHeights,
                  stripH |-> inp.stripH,
                  OUTPUT_W |-> inp.OUTPUT_W, OUTPUT_H |-> inp.OUTPUT_H,
                  slices |-> <<>>]

ResliceAct ==
  /\ UNCHANGED <<split, det, retry, run, rb, fit, blk>>
  /\ resl.pc = "start"
  /\ resl' = [resl EXCEPT !.pc = "done",
                !.slices = reslice(resl.stripH, resl.width, resl.originalHeights,
                                   resl.OUTPUT_W, resl.OUTPUT_H)]

ResliceNext == ResliceAct

SpecReslice == ResliceInit /\ [][ResliceNext]_vars

SliceHeightsOut == [k \in 1..Len(resl.slices) |-> resl.slices[k].height]

\* C2: reslice returns exactly one output slice per input slice, also when
\* the strip is shorter than the sum of the input heights.
C2_SliceCountPreserved ==
  resl.pc = "done" => Len(resl.slices) = Len(resl.originalHeights)

\* C3 (as claimed): the output slice heights sum to the input slice heights.
C3_OutputHeightsSumToInput ==
  resl.pc = "done" => SumSeq(SliceHeightsOut) = SumSeq(resl.originalHeights)

\* C3 (amended): every output slice has exactly the configured output size,
\* so the output heights sum to OUTPUT_H times the number of output slices;
\* the rows it was made from (extracted rows plus black padding) number the
\* recorded height of its input slice.
C3_OutputSlicesHaveOutputSize ==
  resl.pc = "done" =>
    /\ \A k \in 1..Len(resl.slices) :
         /\ resl.slices[k].width = resl.OUTPUT_W
         /\ resl.slices[k].height = resl.OUTPUT_H
         /\ resl.slices[k].rows + resl.slices[k].pad = resl.originalHeights[k]
    /\ SumSeq(SliceHeightsOut) = resl.OUTPUT_H * Len(resl.slices)

\* a slice was resized away from its input height and the sums differ
C3_Witness ==
  /\ resl.pc = "done"
  /\ Len(resl.slices) = Len(resl.originalHeights)
  /\ \E k \in 1..Len(resl.slices) : resl.originalHeights[k] # resl.OUTPUT_H
  /\ SumSeq(SliceHeightsOut) # SumSeq(resl.originalHeights)

\* ------------------------------------------------------------------------
\* Bitmaps.  A pixel is an <<r, g, b>> triple.  A row of a bitmap is a
\* sequence of horizontal runs [px, n] (n equal pixels); a strip is a
\* sequence of vertical runs [row, n] (n equal rows).
\* ------------------------------------------------------------------------

DARK_THRESHOLD == 20

MIN_GAP_HEIGHT == 30

\* EDGE_TOLERANCE = 0.02, in percent
EDGE_TOLERANCE_PCT == 2

PxBlack == <<0, 0, 0>>

PxNearDark == <<19, 19, 19>>

PxWhite == <<255, 255, 255>>

PxGray == <<128, 128, 128>>

\* data[p] < DARK_THRESHOLD && data[p+1] < DARK_THRESHOLD && data[p+2] < DARK_THRESHOLD
IsDarkPixel(px) ==
  px[1] < DARK_THRESHOLD /\ px[2] < DARK_THRESHOLD /\ px[3] < DARK_THRESHOLD

\* the rows the strips of the model are made of, for a strip of width w
RowBlack(w) == <<[px |-> PxBlack, n |-> w]>>

RowNoisy(w) == <<[px |-> PxNearDark, n |-> w - 1], [px |-> PxWhite, n |-> 1]>>

RowText(w) == <<[px |-> PxBlack, n |-> w - 5], [px |-> PxWhite, n |-> 5]>>

RowArt(w) == <<[px |-> PxGray, n |-> w - 5], [px |-> PxBlack, n |-> 5]>>

RowWidth(row) == SumSeq([k \in 1..Len(row) |-> row[k].n])

\* darkCount of one row (the inner loop over x)
RowDarkCount(row) ==
  SumSeq([k \in 1..Len(row) |-> IF IsDarkPixel(row[k].px) THEN row[k].n ELSE 0])

StripHeight(strip) == SumSeq([k \in 1..Len(strip) |-> strip[k].n])

\* the row at (0-based) y of a strip
RECURSIVE RowAt(_, _)
RowAt(strip, y) ==
  IF y < Head(strip).n THEN Head(strip).row ELSE RowAt(Tail(strip), y - Head(strip).n)

\* ------------------------------------------------------------------------
\* Step 2: detectSafeSplitPoints  (colorizer.js 513-568)
\* ------------------------------------------------------------------------

IsSafeRowAlways(row) == TRUE

\* if (darkCount / w >= 1 - EDGE_TOLERANCE) safeRows.push(y)
IsSafeRow(row) ==
  RowDarkCount(row) * 100 >= (100 - EDGE_TOLERANCE_PCT) * RowWidth(row)

SafeRows(strip) ==
  SelectSeq([i \in 1..StripHeight(strip) |-> i - 1],
            LAMBDA y : IsSafeRow(RowAt(strip, y)))

\* if (gapHeight >= MIN_GAP_HEIGHT) gaps.push(...)
GapQualifiesAlways(gapHeight) == TRUE

GapQualifies(gapHeight) == gapHeight >= MIN_GAP_HEIGHT

\* midPoint: Math.floor((gapStart + gapEnd) / 2)
MidPointAtEnd(gapStart, gapEnd) == gapEnd + 1

MidPoint(gapStart, gapEnd) == (gapStart + gapEnd) \div 2

\* The loop over safeRows (colorizer.js 547-565), by the values its locals
\* take at iteration i (1-based).  A run ends at i when safeRows[i + 1] is
\* not safeRows[i] + 1 (at the last index safeRows[i + 1] is undefined).
RunEndsAt(safeRows, i) ==
  i = Len(safeRows) \/ safeRows[i + 1] # safeRows[i] + 1

\* gapStart is null on entry to iteration i exactly when i is the first
\* index or a run ended at i - 1; it is then set to safeRows[i]
GapStartSetAt(safeRows, i) == i = 1 \/ RunEndsAt(safeRows, i - 1)

\* the value of gapStart at iteration i: set at the last such index <= i
GapStartAt(safeRows, i) ==
  safeRows[CHOOSE j \in 1..i :
             /\ GapStartSetAt(safeRows, j)
             /\ \A k \in (j + 1)..i : ~GapStartSetAt(safeRows, k)]

\* gaps, in the order the loop pushes them: one per index at which a run
\* ends with a qualifying height
FindGaps(safeRows) ==
  LET ends == SelectSeq([i \in 1..Len(safeRows) |-> i],
                LAMBDA i : /\ RunEndsAt(safeRows, i)
                           /\ GapQualifies(safeRows[i] - GapStartAt(safeRows, i) + 1))
  IN  [k \in 1..Len(ends) |->
         LET gapStart == GapStartAt(safeRows, ends[k])
             gapEnd   == safeRows[ends[k]]
         IN  [startRow |-> gapStart, endRow |-> gapEnd,
              midPoint |-> MidPoint(gapStart, gapEnd),
              height   |-> gapEnd - gapStart + 1]]

detectSafeSplitPoints(strip) == FindGaps(SafeRows(strip))

\* ------------------------------------------------------------------------
\* Specification of the split-point detector: the stitched strip is drawn
\* as a sequence of runs of equal rows.
\* ------------------------------------------------------------------------

MaxRuns == 3

RunLengths == {1, MIN_GAP_HEIGHT - 1, MIN_GAP_HEIGHT, MIN_GAP_HEIGHT + 1}

DetectRows == {RowBlack(StripWidth), RowNoisy(StripWidth), RowText(StripWidth)}

DetectInit ==
  /\ split = Off
  /\ resl = Off
  /\ retry = Off
  /\ run = Off
  /\ rb = Off /\ fit = Off /\ blk = Off
  /\ \E strip \in SeqsOf([row : DetectRows, n : RunLengths], 1, MaxRuns) :
       det = [pc |-> "start", strip |-> strip, gaps |-> <<>>]

DetectAct ==
  /\ UNCHANGED <<split, resl, retry, run, rb, fit, blk>>
  /\ det.pc = "start"
  /\ det' = [det EXCEPT !.pc = "done", !.gaps = detectSafeSplitPoints(det.strip)]

DetectNext == DetectAct

SpecDetect == DetectInit /\ [][DetectNext]_vars

\* C10: every split candidate has band height >= MIN_GAP_HEIGHT and a
\* midpoint inside its band; the candidates are in ascending row order and
\* do not overlap.
C10_CandidatesWellFormed ==
  det.pc = "done" =>
    /\ \A k \in 1..Len(det.gaps) :
         LET g == det.gaps[k] IN
           /\ g.endRow - g.startRow + 1 >= MIN_GAP_HEIGHT
           /\ g.height = g.endRow - g.startRow + 1
           /\ g.startRow <= g.midPoint /\ g.midPoint <= g.endRow
           /\ 0 <= g.startRow /\ g.endRow < StripHeight(det.strip)
    /\ \A k \in 1..(Len(det.gaps) - 1) :
         /\ det.gaps[k].endRow < det.gaps[k + 1].startRow
         /\ det.gaps[k].midPoint < det.gaps[k + 1].midPoint

\* two candidates of different band heights were detected
C10_Witness ==
  /\ det.pc = "done"
  /\ Len(det.gaps) = 2
  /\ det.gaps[1].height > MIN_GAP_HEIGHT
  /\ det.gaps[2].height = MIN_GAP_HEIGHT

\* ------------------------------------------------------------------------
\* Retry helper: isTransient, withRetry  (colorizer.js 616-653)
\*
\* An error is [status, message, retryAfter]: status 0 stands for an error
\* without a status, retryAfter NoHeader for a response without a Retry-After
\* header.  A bitmap is a record with a kind; null is NoResult.  Messages are the texts below; the two regular expressions of the
\* code are the sets of messages they match.
\* ------------------------------------------------------------------------

MAX_RETRIES == 3

BASE_DELAY_MS == 2000

NoHeader == -1

NoResult == [kind |-> "null"]

MsgTimeout == "Request timeout"

MsgHangUp == "socket hang up"

MsgSafety == "Your request was rejected by the safety system"

MsgNoImage == "No image in response. Output types: message"

MsgBadRequest == "Invalid value for size"

MsgRateLimit == "Rate limit reached"

\* /timeout|ETIMEDOUT|ECONNRESET|ECONNREFUSED|socket hang up|network/i
MatchesNetwork(msg) == msg \in {MsgTimeout, MsgHangUp}

\* /safety|content_policy|moderation/i
MatchesSafety(msg) == msg \in {MsgSafety}

isTransientAlways(err) == TRUE

isTransient(err) ==
  \/ err.status = 429 \/ (err.status >= 500 /\ err.status < 600)
  \/ MatchesNetwork(err.message)
  \/ MatchesSafety(err.message)

\* if (!retriable || attempt === MAX_RETRIES) return null
GivesUpOnlyWhenExhausted(err, attempt) == attempt = MAX_RETRIES

GivesUpOneLate(err, attempt) == ~isTransient(err) \/ attempt = MAX_RETRIES + 1

GivesUp(err, attempt) == ~isTransient(err) \/ attempt = MAX_RETRIES

RECURSIVE Pow2(_)
Pow2(n) == IF n = 0 THEN 1 ELSE 2 * Pow2(n - 1)

\* delay: the Retry-After header in seconds if present, else exponential
RetryDelayMs(err, attempt) ==
  IF err.retryAfter # NoHeader
  THEN err.retryAfter * 1000
  ELSE BASE_DELAY_MS * Pow2(attempt)

\* the reason logged with a failure
FailReason(err) == IF MatchesSafety(err.message) THEN "safety filter" ELSE err.message

\* one entry of the log per call of fn: how it ended
LogOk == [outcome |-> "ok", reason |-> "", transient |-> FALSE]

LogError(err) ==
  [outcome |-> "error", reason |-> FailReason(err),
   transient |-> \/ err.status = 429 \/ (err.status >= 500 /\ err.status < 600)
                 \/ MatchesNetwork(err.message) \/ MatchesSafety(err.message)]

RetryStart == [pc |-> "try", attempt |-> 0, delays |-> <<>>, log |-> <<>>,
               result |-> NoResult]

\* what fn() does before it suspends: in main the closure counts the call
\* (apiCalls++) and colorizeSegment sends its request with the prompt
FnCalled(r) ==
  IF r.pc = "off" THEN r
  ELSE [r EXCEPT !.apiCalls = @ + 1,
                 !.calls = Append(@, r.i),
                 !.requests = Append(@, [kind |-> "colorize", i |-> r.i,
                                         prompt |-> r.PROMPT,
                                         collected |-> Len(r.colorizedSegments),
                                         inflightBefore |-> r.inflight]),
                 !.inflight = @ + 1]

\* the request of fn() is answered
FnSettled(r) ==
  IF r.pc = "off" THEN r ELSE [r EXCEPT !.inflight = @ - 1]

\* try { ... fn() }: fn is called and suspends on its request
RetryCall ==
  /\ retry.pc = "try"
  /\ retry' = [retry EXCEPT !.pc = "inflight"]
  /\ run' = FnCalled(run)
  /\ UNCHANGED <<split, resl, det, rb, fit, blk>>

\* try { return await fn() }: fn resolves with a bitmap
RetryAttemptOk(bitmaps) ==
  /\ retry.pc = "inflight"
  /\ \E b \in bitmaps :
       retry' = [retry EXCEPT !.pc = "returned", !.result = b,
                              !.log = Append(@, LogOk)]
  /\ run' = FnSettled(run)
  /\ UNCHANGED <<split, resl, det, rb, fit, blk>>

\* catch (err): give up (return null) or schedule the backoff delay
RetryAttemptFail(errors) ==
  /\ retry.pc = "inflight"
  /\ \E err \in errors :
       IF GivesUp(err, retry.attempt)
       THEN retry' = [retry EXCEPT !.pc = "returned", !.result = NoResult,
                                   !.log = Append(@, LogError(err))]
       ELSE retry' = [retry EXCEPT !.pc = "wait",
                                   !.delays = Append(@, RetryDelayMs(err, retry.attempt)),
                                   !.log = Append(@, LogError(err))]
  /\ run' = FnSettled(run)
  /\ UNCHANGED <<split, resl, det, rb, fit, blk>>

\* await new Promise((r) => setTimeout(r, delay)); attempt++
RetryDelayElapsed ==
  /\ retry.pc = "wait"
  /\ retry' = [retry EXCEPT !.pc = "try", !.attempt = @ + 1]
  /\ UNCHANGED <<split, resl, det, run, rb, fit, blk>>

\* ------------------------------------------------------------------------
\* Specification of withRetry alone, over every kind of error
\* ------------------------------------------------------------------------

MaxRetryAfter == 2

ErrStatuses == {0, 400, 429, 499, 500, 599, 600}

ErrMessages == {MsgTimeout, MsgHangUp, MsgSafety, MsgNoImage, MsgBadRequest, MsgRateLimit}

Errors == [status : ErrStatuses, message : ErrMessages,
           retryAfter : {NoHeader} \cup 1..MaxRetryAfter]

BitmapOk == [kind |-> "colorized"]

RetryInit ==
  /\ split = Off /\ resl = Off /\ det = Off /\ run = Off /\ rb = Off /\ fit = Off /\ blk = Off
  /\ retry = RetryStart

RetryOk == RetryAttemptOk({BitmapOk})

RetryFail == RetryAttemptFail(Errors)

RetryNext == RetryCall \/ RetryOk \/ RetryFail \/ RetryDelayElapsed

SpecRetry == RetryInit /\ [][RetryNext]_vars

\* number of times fn was called
Attempts(r) == Len(r.log)

\* C7: a success after k transient failures is returned after exactly k
\* backoff delays; fn is never attempted more than MAX_RETRIES + 1 times;
\* no delay is waited after the final attempt.
C7_RetryDelaysAndAttempts ==
  /\ retry.pc # "off" =>
       /\ Attempts(retry) <= MAX_RETRIES + 1
       /\ retry.attempt <= MAX_RETRIES
       /\ Len(retry.delays) <= MAX_RETRIES
  /\ retry.pc = "returned" =>
       /\ Len(retry.delays) = Attempts(retry) - 1
       /\ retry.attempt = Attempts(retry) - 1
  /\ (retry.pc = "returned" /\ retry.result # NoResult) =>
       /\ retry.log[Attempts(retry)] = LogOk
       /\ \A k \in 1..(Attempts(retry) - 1) :
            retry.log[k].outcome = "error" /\ retry.log[k].transient
       /\ Len(retry.delays) =
            Cardinality({k \in 1..Attempts(retry) : retry.log[k].outcome = "error"})

\* the scenario of the specification: failures on attempts 1 and 2, success
\* on attempt 3, two delays
C7_Witness ==
  /\ retry.pc = "returned"
  /\ retry.result = BitmapOk
  /\ Attempts(retry) = 3
  /\ retry.delays = <<BASE_DELAY_MS, 2 * BASE_DELAY_MS>>

\* ------------------------------------------------------------------------
\* Step 4: isBlankSegment  (colorizer.js 657-692)
\* ------------------------------------------------------------------------

BRIGHT_LEVEL == 200

BLANK_DARK_PCT == 98

TEXT_DARK_PCT == 85

TEXT_BRIGHT_PCT == 60

IsBrightPixelInclusive(px) ==
  /\ ~IsDarkPixel(px)
  /\ px[1] >= BRIGHT_LEVEL /\ px[2] >= BRIGHT_LEVEL /\ px[3] >= BRIGHT_LEVEL

\* else if (r > 200 && g > 200 && b > 200): counted only for non-dark pixels
IsBrightPixel(px) ==
  /\ ~IsDarkPixel(px)
  /\ px[1] > BRIGHT_LEVEL /\ px[2] > BRIGHT_LEVEL /\ px[3] > BRIGHT_LEVEL

RowBrightCount(row) ==
  SumSeq([k \in 1..Len(row) |-> IF IsBrightPixel(row[k].px) THEN row[k].n ELSE 0])

\* first row of the k-th vertical run of a strip
RunTop(strip, k) == SumSeq([j \in 1..(k - 1) |-> strip[j].n])

\* number of rows of run k inside the bitmap buf = rows [top, top + height)
RowsOfRunIn(strip, k, buf) ==
  Max(0, Min(buf.top + buf.height, RunTop(strip, k) + strip[k].n)
         - Max(buf.top, RunTop(strip, k)))

\* the counts of the pixel loop over the bitmap buf cut from strip
BufDarkCount(strip, buf) ==
  SumSeq([k \in 1..Len(strip) |-> RowsOfRunIn(strip, k, buf) * RowDarkCount(strip[k].row)])

BufBrightCount(strip, buf) ==
  SumSeq([k \in 1..Len(strip) |-> RowsOfRunIn(strip, k, buf) * RowBrightCount(strip[k].row)])

\* the value isBlankSegment returns for counts over `total` pixels:
\* "none" stands for false
BlankReason(total, darkCount, brightCount) ==
  LET nonDark == total - darkCount
  IN  IF darkCount * 100 >= BLANK_DARK_PCT * total THEN "blank"
      ELSE IF /\ darkCount * 100 >= TEXT_DARK_PCT * total
              /\ nonDark > 0
              /\ brightCount * 100 >= TEXT_BRIGHT_PCT * nonDark
           THEN "text-on-black"
           ELSE "none"

isBlankSegment(strip, width, buf) ==
  BlankReason(width * buf.height, BufDarkCount(strip, buf), BufBrightCount(strip, buf))

\* ------------------------------------------------------------------------
\* main  (colorizer.js 1082-1232)
\*
\* The input slices are consecutive pieces of one strip; stitching them
\* gives that strip back, with the slice heights recorded.
\* ------------------------------------------------------------------------

\* colorizeSegment's result for a segment bitmap
ColorizedOf(buf) == [kind |-> "colorized", top |-> buf.top, height |-> buf.height]

\* if (blankReason): a non-empty string is truthy, false is not
SkipsOnlyBlank(blankReason) == blankReason = "blank"

SkipsCall(blankReason) == blankReason # "none"

\* colorized = segments[i].buffer (the fallback after withRetry returned null)
FallbackToNothing(seg) == NoResult

FallbackBitmap(seg) == seg.buffer

notRun == <<split, resl, det, rb, fit, blk>>

\* buildPromptWithContext: the base prompt, followed by the learned colors
\* when there are any
buildPromptWithContext(basePrompt, contextEntries) ==
  IF Len(contextEntries) = 0
  THEN [base |-> basePrompt, learned |-> <<>>]
  ELSE [base |-> basePrompt, learned |-> contextEntries]

BASE_PROMPT == "COLORIZATION_PROMPT + CHARACTERS"

\* String.prototype.toLowerCase on the color descriptions of the model
LowerCase(str) ==
  CASE str = "Sky: Blue" -> "sky: blue"
    [] str = "Wall: Mint" -> "wall: mint"
    [] OTHER -> str

\* unique = newColors.filter((c) => !existing.has(c.toLowerCase()))
UniqueColors(newColors, contextEntries) ==
  SelectSeq(newColors,
            LAMBDA col : \A k \in 1..Len(contextEntries) :
                           LowerCase(contextEntries[k]) # LowerCase(col))

\* ------------------------------------------------------------------------
\* File names.  A file name is [key, digits, ext]: the text before the last
\* run of decimal digits, that run as a sequence of digits, the extension.
\* ------------------------------------------------------------------------

FileName(key, digits, ext) == [key |-> key, digits |-> digits, ext |-> ext]

\* Number(m[2])
RECURSIVE NumberOf(_)
NumberOf(digits) ==
  IF Len(digits) = 0 THEN 0
  ELSE 10 * NumberOf(SubSeq(digits, 1, Len(digits) - 1)) + digits[Len(digits)]

\* String(n)
RECURSIVE StringOf(_)
StringOf(n) == IF n < 10 THEN <<n>> ELSE Append(StringOf(n \div 10), n % 10)

\* parseName: { key, idx, ext }
parseName(file) == [key |-> file.key, idx |-> NumberOf(file.digits), ext |-> file.ext]

\* pad(n, len) = String(n).padStart(len, "0")
padKeepsWidth(n, len) == StringOf(n)

pad(n, len) ==
  [k \in 1..(Max(len, Len(StringOf(n))) - Len(StringOf(n))) |-> 0] \o StringOf(n)

\* files.map(parseName).sort((a, b) => a.idx - b.idx): a stable insertion
RECURSIVE SortByIdx(_)
SortByIdx(targets) ==
  IF Len(targets) <= 1 THEN targets
  ELSE LET rest == SortByIdx(SubSeq(targets, 1, Len(targets) - 1))
           last == targets[Len(targets)]
           before == SelectSeq(rest, LAMBDA t : t.idx <= last.idx)
           after == SelectSeq(rest, LAMBDA t : t.idx > last.idx)
       IN  before \o <<last>> \o after

Targets(files) == SortByIdx([k \in 1..Len(files) |-> parseName(files[k])])

\* outName for the output slice i (counted from 0)
OutName(targets, i) ==
  LET idxDigits == Len(StringOf(targets[Len(targets)].idx))
  IN  FileName(targets[1].key, pad(targets[1].idx + i, Max(idxDigits, 3)), targets[1].ext)

\* the input files page_001.png, page_002.png, ...
DefaultFiles(n) == [k \in 1..n |-> FileName("page_", <<0, 0, k>>, ".png")]

RunStart(apiKey, strip, heights) ==
  [pc |-> "start", apiKey |-> apiKey, strip |-> strip, heights |-> heights,
   width |-> StripWidth, totalH |-> 0, splitPoints |-> <<>>, segments |-> <<>>,
   i |-> 0, apiCalls |-> 0, skippedSegments |-> 0, failedIndices |-> <<>>,
   colorizedSegments |-> <<>>, calls |-> <<>>, history |-> <<>>,
   reassembled |-> [width |-> 0, height |-> 0, composites |-> <<>>],
   outputSlices |-> <<>>, written |-> <<>>, error |-> "",
   files |-> DefaultFiles(Len(heights)), targets |-> <<>>, writtenNames |-> <<>>,
   CAPTURE_CONTEXT |-> TRUE, contextFile |-> <<>>, contextEntries |-> <<>>,
   PROMPT |-> buildPromptWithContext(BASE_PROMPT, <<>>),
   requests |-> <<>>, inflight |-> 0]

\* the Error main throws before any processing, "" when there is none
InputErrorNever(apiKey, targets) == ""

InputError(apiKey, targets) ==
  IF ~apiKey THEN "Missing OPENAI_API_KEY in .env"
  ELSE IF Len(targets) = 0 THEN "No PNG files found"
  ELSE ""

\* the key check, the prompt with the loaded context, the sorted targets
MainStart ==
  /\ run.pc = "start"
  /\ LET targets == Targets(run.files)
         error == InputError(run.apiKey, targets)
     IN  run' = IF error # ""
               THEN [run EXCEPT !.pc = "failed", !.error = error]
               ELSE [run EXCEPT !.pc = "stitch",
                       !.contextEntries = run.contextFile,
                       !.PROMPT = buildPromptWithContext(BASE_PROMPT, run.contextFile),
                       !.targets = targets]
  /\ UNCHANGED <<retry>> /\ UNCHANGED notRun

\* stitchSlices: totalH is the sum of the slice heights
MainStitch ==
  /\ run.pc = "stitch"
  /\ run' = [run EXCEPT !.pc = "detect", !.totalH = SumSeq(run.heights)]
  /\ UNCHANGED <<retry>> /\ UNCHANGED notRun

MainDetect ==
  /\ run.pc = "detect"
  /\ run' = [run EXCEPT !.pc = "split", !.splitPoints = detectSafeSplitPoints(run.strip)]
  /\ UNCHANGED <<retry>> /\ UNCHANGED notRun

MainSplit ==
  /\ run.pc = "split"
  /\ run' = [run EXCEPT !.pc = "loop", !.i = 1,
               !.segments = splitAtPoints(run.width, run.totalH, run.splitPoints)]
  /\ UNCHANGED <<retry>> /\ UNCHANGED notRun

\* loop head for a blank or text-on-black segment: no call, the input bitmap
\* is collected
MainSkipSegment ==
  /\ run.pc = "loop" /\ run.i <= Len(run.segments)
  /\ LET seg == run.segments[run.i]
         blankReason == isBlankSegment(run.strip, run.width, seg.buffer)
     IN  /\ SkipsCall(blankReason)
         /\ run' = [run EXCEPT
              !.skippedSegments = @ + 1,
              !.colorizedSegments = Append(@, [buffer |-> seg.buffer, height |-> seg.height]),
              !.history = Append(@, [i |-> run.i, disposition |-> blankReason,
                                     log |-> <<>>, delays |-> <<>>, learned |-> <<>>]),
              !.i = @ + 1]
  /\ UNCHANGED <<retry>> /\ UNCHANGED notRun

\* loop head otherwise: colorized = await withRetry(() => {...})
MainCallWithRetry ==
  /\ run.pc = "loop" /\ run.i <= Len(run.segments)
  /\ ~SkipsCall(isBlankSegment(run.strip, run.width, run.segments[run.i].buffer))
  /\ run' = [run EXCEPT !.pc = "await"]
  /\ retry' = RetryStart
  /\ UNCHANGED notRun

\* the error colorizeSegment or the service can raise in a run: rate limit,
\* content-safety rejection, response without image
RunErrors ==
  { [status |-> 429, message |-> MsgRateLimit, retryAfter |-> NoHeader],
    [status |-> 0,   message |-> MsgSafety,    retryAfter |-> NoHeader],
    [status |-> 0,   message |-> MsgNoImage,   retryAfter |-> NoHeader] }

MainCall ==
  /\ run.pc = "await"
  /\ RetryCall

MainAttemptOk ==
  /\ run.pc = "await"
  /\ RetryAttemptOk({ColorizedOf(run.segments[run.i].buffer)})

MainAttemptFail ==
  /\ run.pc = "await"
  /\ RetryAttemptFail(RunErrors)

MainDelayElapsed ==
  /\ run.pc = "await"
  /\ RetryDelayElapsed

\* colorized = await withRetry(...): main resumes when withRetry returned
AwaitResolvedEarly(r) == r.pc \in {"returned", "inflight"}

AwaitResolved(r) == r.pc = "returned"

\* failedIndices.push(i + 1), for the loop index i counted from 0
ReportedIndexRaw(i) == i

ReportedIndex(i) == i + 1

\* colorizedSegments.push({ buffer: colorized, height: segments[i].height })
Collected(r, colorized, disposition, log, delays, learned) ==
  [r EXCEPT
     !.pc = "loop",
     !.colorizedSegments = Append(@, [buffer |-> colorized,
                                      height |-> r.segments[r.i].height]),
     !.history = Append(@, [i |-> r.i, disposition |-> disposition,
                            log |-> log, delays |-> delays, learned |-> learned]),
     !.i = @ + 1]

\* withRetry returned: on null fall back to the original and collect it; else
\* ask for the colors of the result, or collect it when capture is off
MainAfterRetry ==
  /\ run.pc = "await" /\ AwaitResolved(retry)
  /\ LET seg == run.segments[run.i]
         failed == retry.result = NoResult
     IN  IF failed
         THEN /\ run' = Collected([run EXCEPT !.failedIndices =
                                     Append(@, ReportedIndex(run.i - 1))],
                                  FallbackBitmap(seg), "fallback",
                                  retry.log, retry.delays, <<>>)
              /\ retry' = Off
         ELSE IF run.CAPTURE_CONTEXT
         THEN /\ run' = [run EXCEPT
                    !.pc = "capture",
                    !.requests = Append(@, [kind |-> "capture", i |-> run.i,
                                            prompt |-> buildPromptWithContext(BASE_PROMPT, <<>>),
                                            collected |-> Len(run.colorizedSegments),
                                            inflightBefore |-> run.inflight]),
                    !.inflight = @ + 1]
              /\ UNCHANGED retry
         ELSE /\ run' = Collected(run, retry.result, "colorized",
                                  retry.log, retry.delays, <<>>)
              /\ retry' = Off
  /\ UNCHANGED notRun

\* captureContext answered (a failure gives no color): the colors not yet
\* known are added to contextEntries and the result is collected
MainCaptured(outcomes) ==
  /\ run.pc = "capture"
  /\ \E newColors \in outcomes :
       LET unique == UniqueColors(newColors, run.contextEntries)
       IN  run' = Collected([run EXCEPT !.contextEntries = @ \o unique,
                                        !.inflight = @ - 1],
                            retry.result, "colorized", retry.log, retry.delays, unique)
  /\ retry' = Off
  /\ UNCHANGED notRun

\* saveContext
SavedContext(r) ==
  IF r.CAPTURE_CONTEXT /\ Len(r.contextEntries) > 0 THEN r.contextEntries
                                                     ELSE r.contextFile

\* the summary, saveContext, reassembleSegments; sharp rejects a canvas of
\* height 0
MainReassemble ==
  /\ run.pc = "loop" /\ run.i > Len(run.segments)
  /\ LET r == reassembleSegments(run.colorizedSegments, run.width)
     IN  run' = IF r.height <= 0
               THEN [run EXCEPT !.pc = "failed", !.contextFile = SavedContext(run),
                                !.error = "Expected positive integer for height"]
               ELSE [run EXCEPT !.pc = "reslice", !.contextFile = SavedContext(run),
                                !.reassembled = r]
  /\ UNCHANGED <<retry>> /\ UNCHANGED notRun

MainReslice ==
  /\ run.pc = "reslice"
  /\ run' = [run EXCEPT !.pc = "save",
               !.outputSlices = reslice(run.reassembled.height, run.width, run.heights,
                                        DEFAULT_OUTPUT_W, DEFAULT_OUTPUT_H)]
  /\ UNCHANGED <<retry>> /\ UNCHANGED notRun

\* the loop that writes every output slice
MainSave ==
  /\ run.pc = "save"
  /\ run' = [run EXCEPT !.pc = "done", !.written = run.outputSlices,
               !.writtenNames = [k \in 1..Len(run.outputSlices) |->
                                   OutName(run.targets, k - 1)]]
  /\ UNCHANGED <<retry>> /\ UNCHANGED notRun

\* ------------------------------------------------------------------------
\* Specification of a run
\* ------------------------------------------------------------------------

MaxStripRuns == 3

RunRows == {RowBlack(StripWidth), RowText(StripWidth), RowArt(StripWidth)}

RunRunLengths == {MIN_GAP_HEIGHT + 10, 2 * MIN_SEGMENT_H}

\* how a strip of height h may arrive as input slices
SlicingsOf(h) == {<<>>, <<h>>, <<h \div 2, h - (h \div 2)>>}

RunInit ==
  /\ split = Off /\ resl = Off /\ det = Off /\ retry = Off /\ rb = Off /\ fit = Off /\ blk = Off
  /\ \E strip \in SeqsOf([row : RunRows, n : RunRunLengths], 1, MaxStripRuns) :
     \E heights \in SlicingsOf(StripHeight(strip)) :
     \E apiKey \in BOOLEAN :
       run = RunStart(apiKey, strip, heights)

\* in this specification the capture of colors reports nothing
MainCapturedNothing == MainCaptured({<<>>})

RunNext ==
  \/ MainStart \/ MainStitch \/ MainDetect \/ MainSplit
  \/ MainSkipSegment \/ MainCallWithRetry
  \/ MainCall \/ MainAttemptOk \/ MainAttemptFail \/ MainDelayElapsed \/ MainAfterRetry
  \/ MainCapturedNothing
  \/ MainReassemble \/ MainReslice \/ MainSave

SpecRun == RunInit /\ [][RunNext]_vars

\* a call of the log ended with an error that is not transient
HasNonTransient(log) ==
  \E k \in 1..Len(log) : log[k].outcome = "error" /\ ~log[k].transient

\* every one of the MAX_RETRIES + 1 calls ended with a transient error
AllTransientFailures(log) ==
  /\ Len(log) = MAX_RETRIES + 1
  /\ \A k \in 1..Len(log) : log[k].outcome = "error" /\ log[k].transient

InFailedIndices(i) == \E k \in 1..Len(run.failedIndices) : run.failedIndices[k] = i

\* the run went through every segment and wrote its output slices
FinishedWithOutput ==
  run.pc = "done" =>
    /\ Len(run.colorizedSegments) = Len(run.segments)
    /\ run.written = run.outputSlices
    /\ Len(run.written) >= 1

\* C5 (as claimed): a non-transient error on a segment aborts the run: the
\* segment is not replaced by its original bitmap, no further segment is
\* processed and no output slice is written.
C5_NonTransientAbortsRun ==
  \A k \in 1..Len(run.history) :
    HasNonTransient(run.history[k].log) =>
      /\ run.history[k].disposition # "fallback"
      /\ Len(run.history) = k
      /\ run.pc = "failed"
      /\ run.written = <<>>

\* C5 (amended): a non-transient error is not retried and does not abort the
\* run: it is the last call for its segment, no delay follows it, the
\* segment's output is its original bitmap, its index is recorded as failed,
\* and the run goes on to write its output slices.
C5_NonTransientFallsBack ==
  /\ retry.pc \in {"try", "wait"} => ~HasNonTransient(retry.log)
  /\ \A k \in 1..Len(run.history) :
       LET h == run.history[k] IN
         HasNonTransient(h.log) =>
           /\ \A j \in 1..(Len(h.log) - 1) : h.log[j].transient
           /\ Len(h.delays) = Len(h.log) - 1
           /\ h.disposition = "fallback"
           /\ run.colorizedSegments[h.i].buffer = run.segments[h.i].buffer
           /\ InFailedIndices(h.i)
           /\ run.pc # "failed"
  /\ FinishedWithOutput

\* a run that wrote its output although the first call for a segment ended
\* with a non-transient error, and that colorized a later segment
C5_Witness ==
  /\ run.pc = "done"
  /\ Len(run.written) >= 1
  /\ \E k \in 1..Len(run.history) :
       /\ HasNonTransient(run.history[k].log)
       /\ Len(run.history[k].log) = 1
       /\ \E m \in (k + 1)..Len(run.history) : run.history[m].disposition = "colorized"

\* C6: when every attempt for a segment fails with a transient error the
\* run is not aborted: the segment's output is its original bitmap, its
\* index is recorded as a fallback, and the run goes on to the following
\* segments and writes its output slices.
C6_TransientExhaustionFallsBack ==
  /\ (retry.pc = "returned" /\ AllTransientFailures(retry.log)) => retry.result = NoResult
  /\ \A k \in 1..Len(run.history) :
       LET h == run.history[k] IN
         AllTransientFailures(h.log) =>
           /\ h.disposition = "fallback"
           /\ run.colorizedSegments[h.i].buffer = run.segments[h.i].buffer
           /\ run.colorizedSegments[h.i].height = run.segments[h.i].height
           /\ InFailedIndices(h.i)
           /\ run.pc # "failed"
  /\ run.pc = "failed" => run.apiCalls = 0
  /\ FinishedWithOutput

\* a finished run in which a segment fell back after MAX_RETRIES + 1
\* transient failures, the last a content-safety rejection, and a later
\* segment was colorized
C6_Witness ==
  /\ run.pc = "done"
  /\ Len(run.written) >= 1
  /\ \E k \in 1..Len(run.history) :
       /\ AllTransientFailures(run.history[k].log)
       /\ run.history[k].log[MAX_RETRIES + 1].reason = "safety filter"
       /\ \E m \in (k + 1)..Len(run.history) : run.history[m].disposition = "colorized"

\* the segment's dark-pixel fraction is at least 0.98
DarkFractionBlank(seg) ==
  BufDarkCount(run.strip, seg.buffer) * 100 >= BLANK_DARK_PCT * (run.width * seg.height)

\* the segment is classified blank or text-on-black
ClassifiedBlank(seg) ==
  \/ DarkFractionBlank(seg)
  \/ isBlankSegment(run.strip, run.width, seg.buffer) \in {"blank", "text-on-black"}

\* C8: a segment classified blank or text-on-black is never sent to the
\* external service: no call is issued for it and the bitmap collected for
\* it, and placed in the reassembled strip, is its input bitmap.
C8_BlankSegmentsNeverSent ==
  \A i \in 1..Len(run.segments) :
    ClassifiedBlank(run.segments[i]) =>
      /\ \A c \in 1..Len(run.calls) : run.calls[c] # i
      /\ (run.pc = "await" => run.i # i)
      /\ i <= Len(run.colorizedSegments) =>
           run.colorizedSegments[i].buffer = run.segments[i].buffer
      /\ i <= Len(run.reassembled.composites) =>
           run.reassembled.composites[i].input = run.segments[i].buffer
      /\ \A k \in 1..Len(run.history) :
           run.history[k].i = i => run.history[k].log = <<>>

\* a finished run with a text-on-black segment that was skipped and another
\* segment that was sent
C8_Witness ==
  /\ run.pc = "done"
  /\ run.apiCalls >= 1
  /\ \E i \in 1..Len(run.segments) :
       /\ isBlankSegment(run.strip, run.width, run.segments[i].buffer) = "text-on-black"
       /\ run.reassembled.composites[i].input = run.segments[i].buffer

\* a finished run with a segment of dark fraction >= 0.98 that was skipped
C8_WitnessBlank ==
  /\ run.pc = "done"
  /\ run.skippedSegments >= 1
  /\ \E i \in 1..Len(run.segments) : DarkFractionBlank(run.segments[i])

\* ------------------------------------------------------------------------
\* Post-process: restoreBlacks  (colorizer.js 707-848)
\*
\* An image of width w and height h is a sequence of w * h pixels, the pixel
\* of index idx = y * w + x at position idx + 1.  Pixels of the original are
\* <<r, g, b>>, pixels of the colorized image and of the output <<r, g, b, a>>.
\* The Uint8Array maps dark, white and edgeConnected are the sets of the
\* indices they hold a 1 for.
\* ------------------------------------------------------------------------

BLACK_RESTORE_THRESHOLD == 5

WHITE_THRESHOLD == 250

LOCAL_CHECK_RADIUS == 16

\* LOCAL_DENSITY_MIN = 0.70, in percent
LOCAL_DENSITY_PCT == 70

BUBBLE_SEARCH_RADIUS == 3

OpaqueBlack == <<0, 0, 0, 255>>

Indices(w, h) == 0..(w * h - 1)

XOf(idx, w) == idx % w

YOf(idx, w) == idx \div w

\* r < BLACK_RESTORE_THRESHOLD && g < ... && b < ...
IsTrueBlack(px) ==
  /\ px[1] < BLACK_RESTORE_THRESHOLD
  /\ px[2] < BLACK_RESTORE_THRESHOLD
  /\ px[3] < BLACK_RESTORE_THRESHOLD

\* r > WHITE_THRESHOLD && g > ... && b > ...
IsWhite(px) ==
  px[1] > WHITE_THRESHOLD /\ px[2] > WHITE_THRESHOLD /\ px[3] > WHITE_THRESHOLD

DarkMap(orig, w, h) == {idx \in Indices(w, h) : IsTrueBlack(orig[idx + 1])}

WhiteMap(orig, w, h) == {idx \in Indices(w, h) : IsWhite(orig[idx + 1])}

\* sat[y * sw + x]: the number of dark pixels at columns < x and rows < y,
\* the value the summed-area recurrence gives
Sat(dark, w, x, y) ==
  Cardinality({idx \in dark : XOf(idx, w) < x /\ YOf(idx, w) < y})

\* getLocalDensity(cx, cy) >= LOCAL_DENSITY_MIN, on the clipped block
LocalDensityOk(dark, w, h, cx, cy) ==
  LET x1 == Max(0, cx - LOCAL_CHECK_RADIUS)
      y1 == Max(0, cy - LOCAL_CHECK_RADIUS)
      x2 == Min(w - 1, cx + LOCAL_CHECK_RADIUS)
      y2 == Min(h - 1, cy + LOCAL_CHECK_RADIUS)
      blockSize == (x2 - x1 + 1) * (y2 - y1 + 1)
      darkCount == Sat(dark, w, x2 + 1, y2 + 1) - Sat(dark, w, x2 + 1, y1)
                   - Sat(dark, w, x1, y2 + 1) + Sat(dark, w, x1, y1)
  IN  darkCount * 100 >= LOCAL_DENSITY_PCT * blockSize

\* isNearWhite(cx, cy)
IsNearWhite(white, w, h, cx, cy) ==
  \E dy \in (-BUBBLE_SEARCH_RADIUS)..BUBBLE_SEARCH_RADIUS :
  \E dx \in (-BUBBLE_SEARCH_RADIUS)..BUBBLE_SEARCH_RADIUS :
    LET nx == cx + dx
        ny == cy + dy
    IN  /\ nx >= 0 /\ nx < w /\ ny >= 0 /\ ny < h
        /\ (ny * w + nx) \in white

\* the seed queue: dark pixels of the top and bottom rows, column by column,
\* then of the left and right columns of the rows between
RECURSIVE SeedRows(_, _, _, _)
SeedRows(dark, w, h, x) ==
  IF x >= w THEN <<>>
  ELSE (IF x \in dark THEN <<x>> ELSE <<>>)
       \o (IF ((h - 1) * w + x) \in dark THEN <<(h - 1) * w + x>> ELSE <<>>)
       \o SeedRows(dark, w, h, x + 1)

RECURSIVE SeedColumns(_, _, _, _)
SeedColumns(dark, w, h, y) ==
  IF y >= h - 1 THEN <<>>
  ELSE (IF (y * w) \in dark THEN <<y * w>> ELSE <<>>)
       \o (IF (y * w + (w - 1)) \in dark THEN <<y * w + (w - 1)>> ELSE <<>>)
       \o SeedColumns(dark, w, h, y + 1)

SeedQueue(dark, w, h) == SeedRows(dark, w, h, 0) \o SeedColumns(dark, w, h, 1)

\* the neighbours of idx, in the order the code pushes them
Neighbors(idx, w, h) ==
  (IF XOf(idx, w) > 0 THEN <<idx - 1>> ELSE <<>>)
  \o (IF XOf(idx, w) < w - 1 THEN <<idx + 1>> ELSE <<>>)
  \o (IF YOf(idx, w) > 0 THEN <<idx - w>> ELSE <<>>)
  \o (IF YOf(idx, w) < h - 1 THEN <<idx + w>> ELSE <<>>)

NewlyConnectedAnyNeighbor(idx, dark, edgeConnected, w, h) ==
  SelectSeq(Neighbors(idx, w, h), LAMBDA n : n \notin edgeConnected)

\* for (const nIdx of neighbors) if (dark[nIdx] && !edgeConnected[nIdx]) ...
NewlyConnected(idx, dark, edgeConnected, w, h) ==
  SelectSeq(Neighbors(idx, w, h), LAMBDA n : n \in dark /\ n \notin edgeConnected)

\* the three tests of the restore loop for the pixel idx
RestoresEveryDark(idx, dark, white, edgeConnected, w, h) == idx \in dark

RestoresWithoutDensity(idx, dark, white, edgeConnected, w, h) ==
  /\ idx \in dark
  /\ (idx \in edgeConnected \/ IsNearWhite(white, w, h, XOf(idx, w), YOf(idx, w)))

ShouldRestore(idx, dark, white, edgeConnected, w, h) ==
  /\ idx \in dark
  /\ LocalDensityOk(dark, w, h, XOf(idx, w), YOf(idx, w))
  /\ (idx \in edgeConnected \/ IsNearWhite(white, w, h, XOf(idx, w), YOf(idx, w)))

RestoredImageToggling(col, dark, white, edgeConnected, w, h) ==
  [i \in 1..(w * h) |->
     IF i - 1 \in dark /\ col[i] # OpaqueBlack THEN OpaqueBlack
     ELSE IF i - 1 \in dark THEN <<1, 1, 1, 255>> ELSE col[i]]

\* cD after the restore loop
RestoredImage(col, dark, white, edgeConnected, w, h) ==
  [i \in 1..(w * h) |->
     IF ShouldRestore(i - 1, dark, white, edgeConnected, w, h)
     THEN OpaqueBlack ELSE col[i]]

notRb == <<split, resl, det, retry, run, fit, blk>>

\* decode both images, build the dark and white maps, seed the queue
RbBuildMaps ==
  /\ rb.pc = "start"
  /\ LET dark == DarkMap(rb.orig, rb.w, rb.h)
         queue == SeedQueue(dark, rb.w, rb.h)
     IN  rb' = [rb EXCEPT !.pc = "flood",
                          !.dark = dark,
                          !.white = WhiteMap(rb.orig, rb.w, rb.h),
                          !.queue = queue,
                          !.edgeConnected = {queue[k] : k \in 1..Len(queue)}]
  /\ UNCHANGED notRb

\* one iteration of while (queue.length > 0)
RbFloodStep ==
  /\ rb.pc = "flood" /\ Len(rb.queue) > 0
  /\ LET idx == rb.queue[Len(rb.queue)]
         new == NewlyConnected(idx, rb.dark, rb.edgeConnected, rb.w, rb.h)
     IN  rb' = [rb EXCEPT !.queue = SubSeq(rb.queue, 1, Len(rb.queue) - 1) \o new,
                          !.edgeConnected = @ \cup {new[k] : k \in 1..Len(new)}]
  /\ UNCHANGED notRb

\* the restore loop and the encoding of the result
RbRestore ==
  /\ rb.pc = "flood" /\ Len(rb.queue) = 0
  /\ rb' = [rb EXCEPT !.pc = "done",
              !.out = RestoredImage(rb.col, rb.dark, rb.white, rb.edgeConnected, rb.w, rb.h)]
  /\ UNCHANGED notRb

\* ------------------------------------------------------------------------
\* Specification of restoreBlacks.  Two families of originals: a grid with
\* an inner pixel, its four neighbours and two pixels at distance 3 and 4
\* from it, and a one-row line whose density blocks are clipped differently
\* from pixel to pixel.
\* ------------------------------------------------------------------------

ImgW == 7

ImgH == 3

LineLen == 20

OBlack == <<0, 0, 0>>

OAlmost == <<4, 4, 4>>

ONotBlack == <<5, 4, 4>>

OGray == <<128, 128, 128>>

OWhite == <<255, 255, 255>>

OBright == <<251, 251, 251>>

ONotWhite == <<250, 251, 251>>

Tint == <<200, 100, 50, 255>>

Translucent == <<0, 0, 0, 128>>

\* the grid original: centre (1,1), its neighbours, the pixels (4,1) and
\* (5,1), and the two right-hand corners; black elsewhere
GridOrig(c, n, f1, f2, a) ==
  [i \in 1..(ImgW * ImgH) |->
     LET x == XOf(i - 1, ImgW)
         y == YOf(i - 1, ImgW)
     IN  IF x = 1 /\ y = 1 THEN c
         ELSE IF x = 0 /\ y = 1 THEN n[1]
         ELSE IF x = 2 /\ y = 1 THEN n[2]
         ELSE IF x = 1 /\ y = 0 THEN n[3]
         ELSE IF x = 1 /\ y = 2 THEN n[4]
         ELSE IF x = 4 /\ y = 1 THEN f1
         ELSE IF x = 5 /\ y = 1 THEN f2
         ELSE IF x = ImgW - 1 /\ y \in {0, ImgH - 1} THEN a
         ELSE OBlack]

\* the line original: the first k pixels gray, the others black
LineOrig(k) == [i \in 1..LineLen |-> IF i <= k THEN OGray ELSE OBlack]

\* the colorized images: tinted everywhere; pure black where x + y is odd;
\* translucent black everywhere
Colorized(w, h) ==
  { [i \in 1..(w * h) |-> Tint],
    [i \in 1..(w * h) |->
       IF (XOf(i - 1, w) + YOf(i - 1, w)) % 2 = 1 THEN OpaqueBlack ELSE Tint],
    [i \in 1..(w * h) |-> Translucent] }

RbStart(w, h, orig, col) ==
  [pc |-> "start", w |-> w, h |-> h, orig |-> orig, col |-> col,
   dark |-> {}, white |-> {}, queue |-> <<>>, edgeConnected |-> {}, out |-> <<>>,
   pass |-> 1, first |-> <<>>]

\* restoreBlacks applied again, to the same original and to its own result
RbSecondCall ==
  /\ rb.pc = "done" /\ rb.pass = 1
  /\ rb' = [RbStart(rb.w, rb.h, rb.orig, rb.out) EXCEPT !.pass = 2, !.first = rb.out]
  /\ UNCHANGED notRb

\* the four neighbours of the centre: black or gray, the last also white
RingPatterns ==
  {n \in [1..4 -> {OBlack, OGray, OWhite}] : \A k \in 1..3 : n[k] # OWhite}

RbInit ==
  /\ split = Off /\ resl = Off /\ det = Off /\ retry = Off /\ run = Off /\ fit = Off /\ blk = Off
  /\ \/ \E c \in {OBlack, OAlmost, ONotBlack} :
        \E n \in RingPatterns :
        \E f1 \in {OBlack, ONotWhite, OBright} :
        \E f2 \in {OBlack, OBright} :
        \E a \in {OBlack, OGray} :
        \E col \in Colorized(ImgW, ImgH) :
          rb = RbStart(ImgW, ImgH, GridOrig(c, n, f1, f2, a), col)
     \/ \E k \in 0..LineLen :
        \E col \in Colorized(LineLen, 1) :
          rb = RbStart(LineLen, 1, LineOrig(k), col)

RbNext == RbBuildMaps \/ RbFloodStep \/ RbRestore \/ RbSecondCall

SpecRestore == RbInit /\ [][RbNext]_vars

\* the original pixel of index idx is true-black
OrigTrueBlack(idx) ==
  \A ch \in 1..3 : rb.orig[idx + 1][ch] < BLACK_RESTORE_THRESHOLD

\* the pixels of the block of radius LOCAL_CHECK_RADIUS around idx, clipped
\* to the image
BlockAround(idx) ==
  {j \in Indices(rb.w, rb.h) :
     /\ XOf(j, rb.w) - XOf(idx, rb.w) \in (-LOCAL_CHECK_RADIUS)..LOCAL_CHECK_RADIUS
     /\ YOf(j, rb.w) - YOf(idx, rb.w) \in (-LOCAL_CHECK_RADIUS)..LOCAL_CHECK_RADIUS}

\* at least 0.70 of the pixels of the block around idx are true-black
DenselyDark(idx) ==
  10 * Cardinality({j \in BlockAround(idx) : OrigTrueBlack(j)})
    >= 7 * Cardinality(BlockAround(idx))

OnBorder(idx) ==
  \/ XOf(idx, rb.w) \in {0, rb.w - 1}
  \/ YOf(idx, rb.w) \in {0, rb.h - 1}

Adjacent(i, j) ==
  \/ YOf(i, rb.w) = YOf(j, rb.w) /\ XOf(i, rb.w) - XOf(j, rb.w) \in {-1, 1}
  \/ XOf(i, rb.w) = XOf(j, rb.w) /\ YOf(i, rb.w) - YOf(j, rb.w) \in {-1, 1}

\* the true-black pixels joined to the image border by a 4-connected path
\* of true-black pixels
RECURSIVE GrowRegion(_)
GrowRegion(S) ==
  LET T == S \cup {j \in Indices(rb.w, rb.h) :
                     OrigTrueBlack(j) /\ \E i \in S : Adjacent(i, j)}
  IN  IF T = S THEN S ELSE GrowRegion(T)

BorderRegion ==
  GrowRegion({j \in Indices(rb.w, rb.h) : OrigTrueBlack(j) /\ OnBorder(j)})

\* a white pixel of the original lies within BUBBLE_SEARCH_RADIUS of idx
BubbleAdjacent(idx) ==
  \E j \in Indices(rb.w, rb.h) :
    /\ \A ch \in 1..3 : rb.orig[j + 1][ch] > WHITE_THRESHOLD
    /\ XOf(j, rb.w) - XOf(idx, rb.w) \in (-BUBBLE_SEARCH_RADIUS)..BUBBLE_SEARCH_RADIUS
    /\ YOf(j, rb.w) - YOf(idx, rb.w) \in (-BUBBLE_SEARCH_RADIUS)..BUBBLE_SEARCH_RADIUS

RestoreCriteria(idx) ==
  /\ OrigTrueBlack(idx)
  /\ DenselyDark(idx)
  /\ (idx \in BorderRegion \/ BubbleAdjacent(idx))

\* C4 (as claimed): an output pixel of restoreBlacks is pure opaque black if
\* and only if the original pixel is true-black, densely dark and
\* edge-connected or bubble-adjacent; every other output pixel equals the
\* colorized pixel.
C4_BlackIffCriteria ==
  rb.pc = "done" =>
    \A idx \in Indices(rb.w, rb.h) :
      /\ (rb.out[idx + 1] = OpaqueBlack) <=> RestoreCriteria(idx)
      /\ ~RestoreCriteria(idx) => rb.out[idx + 1] = rb.col[idx + 1]

\* C4 (amended): a pixel that is true-black in the original, densely dark
\* and edge-connected or bubble-adjacent is pure opaque black in the output;
\* every other output pixel equals the colorized pixel in all four channels
\* (and so is pure opaque black exactly when the colorized pixel is).
C4_RestoredOrUnchanged ==
  rb.pc = "done" =>
    /\ Len(rb.out) = rb.w * rb.h
    /\ \A idx \in Indices(rb.w, rb.h) :
         IF RestoreCriteria(idx)
         THEN rb.out[idx + 1] = OpaqueBlack
         ELSE rb.out[idx + 1] = rb.col[idx + 1]

\* a result with a pixel restored only because a white pixel is near, a
\* densely dark true-black pixel left alone, and a pixel that is black in the
\* output because the colorized pixel was
C4_Witness ==
  /\ rb.pc = "done"
  /\ \E idx \in Indices(rb.w, rb.h) :
       /\ RestoreCriteria(idx) /\ idx \notin BorderRegion
       /\ rb.col[idx + 1] # OpaqueBlack /\ rb.out[idx + 1] = OpaqueBlack
  /\ \E idx \in Indices(rb.w, rb.h) :
       /\ ~RestoreCriteria(idx)
       /\ rb.col[idx + 1] = OpaqueBlack /\ rb.out[idx + 1] = OpaqueBlack

\* results in which a true-black pixel is left alone: for want of density;
\* for want of a border path and of a white pixel within the radius
C4_WitnessSparse ==
  /\ rb.pc = "done"
  /\ \E idx \in Indices(rb.w, rb.h) :
       /\ OrigTrueBlack(idx) /\ ~DenselyDark(idx) /\ idx \in BorderRegion
       /\ rb.out[idx + 1] = Tint
  /\ \E idx \in Indices(rb.w, rb.h) : RestoreCriteria(idx)

C4_WitnessEnclosed ==
  /\ rb.pc = "done"
  /\ \E idx \in Indices(rb.w, rb.h) :
       /\ OrigTrueBlack(idx) /\ DenselyDark(idx)
       /\ idx \notin BorderRegion /\ ~BubbleAdjacent(idx)
       /\ rb.out[idx + 1] = Translucent
       /\ \E j \in Indices(rb.w, rb.h) : rb.orig[j + 1] = OBright

\* the number of pixels of a row that fail the darkness test
NonDarkCount(row) ==
  SumSeq([k \in 1..Len(row) |->
            IF \E ch \in 1..3 : row[k].px[ch] >= DARK_THRESHOLD THEN row[k].n ELSE 0])

\* the rows of the detected bands
BandRows == {y \in 0..(StripHeight(det.strip) - 1) :
               \E k \in 1..Len(det.gaps) :
                 det.gaps[k].startRow <= y /\ y <= det.gaps[k].endRow}

Canvas(aw, ah) == [aw |-> aw, ah |-> ah]

\* candidates: square, portrait, landscape
ApiCandidates == <<Canvas(1024, 1024), Canvas(1024, 1536), Canvas(1536, 1024)>>

ScaleMax(c, w, h) ==
  IF c.aw * h <= c.ah * w THEN [num |-> c.ah, den |-> h]
                          ELSE [num |-> c.aw, den |-> w]

\* scale = Math.min(c.aw / w, c.ah / h), as the fraction num / den
Scale(c, w, h) ==
  IF c.aw * h <= c.ah * w THEN [num |-> c.aw, den |-> w]
                          ELSE [num |-> c.ah, den |-> h]

\* scale > 2
HeavyUpscale(c, w, h) == Scale(c, w, h).num > 2 * Scale(c, w, h).den

Abs(n) == IF n < 0 THEN -n ELSE n

\* score = aspectDiff + upscalePenalty, multiplied by 6 * w * h
\* (6 * aw / ah is 6, 4 or 9)
ScoreTimes6wh(c, w, h) ==
  LET aspectDiff == Abs(((6 * c.aw) \div c.ah) * h - 6 * w) * w
      s == Scale(c, w, h)
      upscalePenalty == IF HeavyUpscale(c, w, h)
                        THEN (IF s.den = w THEN 6 * s.num * h ELSE 6 * s.num * w)
                        ELSE 0
  IN  aspectDiff + upscalePenalty

\* for (const c of candidates) if (score < bestScore) best = c
RECURSIVE PickLoop(_, _, _, _)
PickLoop(k, best, w, h) ==
  IF k > Len(ApiCandidates) THEN best
  ELSE IF ScoreTimes6wh(ApiCandidates[k], w, h) < ScoreTimes6wh(best, w, h)
       THEN PickLoop(k + 1, ApiCandidates[k], w, h)
       ELSE PickLoop(k + 1, best, w, h)

PickPortraitAlways(w, h) == ApiCandidates[2]

pickApiSize(w, h) == PickLoop(2, ApiCandidates[1], w, h)

\* the candidates whose exact score equals the best: between them the
\* rounding of the floating-point scores decides
PickOutcomes(w, h) ==
  {pickApiSize(w, h)} \cup
  {ApiCandidates[k] : k \in {j \in 1..Len(ApiCandidates) :
      ScoreTimes6wh(ApiCandidates[j], w, h) = ScoreTimes6wh(pickApiSize(w, h), w, h)}}

\* Math.round(num / den)
RoundOutcomes(num, den) ==
  LET k == num \div den
      r == num % den
  IN  IF 2 * r = den THEN {k, k + 1}
      ELSE IF 2 * r > den THEN {k + 1} ELSE {k}

\* TIER.maxWidth; NoMaxWidth stands for Infinity
NoMaxWidth == 0

TierExceeded(origW, maxWidth) == maxWidth # NoMaxWidth /\ origW > maxWidth

\* workW, workH after the quality-tier downscale
WorkSizes(origW, origH, maxWidth) ==
  IF TierExceeded(origW, maxWidth)
  THEN {[w |-> maxWidth, h |-> wh] : wh \in RoundOutcomes(origH * maxWidth, origW)}
  ELSE {[w |-> origW, h |-> origH]}

\* fitW = Math.round(workW * scale), fitH = Math.round(workH * scale)
FitSizes(c, workW, workH) ==
  LET s == Scale(c, workW, workH)
  IN  {[w |-> fw, h |-> fh] : fw \in RoundOutcomes(workW * s.num, s.den),
                              fh \in RoundOutcomes(workH * s.num, s.den)}

\* the final size: the restored bitmap, resized when the working size
\* differs from the original
FinalSizeKeepsWork(workW, workH, origW, origH) == [w |-> workW, h |-> workH]

FinalSize(workW, workH, origW, origH) ==
  IF workW # origW \/ workH # origH THEN [w |-> origW, h |-> origH]
                                     ELSE [w |-> workW, h |-> workH]

NoRect == [left |-> 0, top |-> 0, width |-> 0, height |-> 0]

NoSize == [w |-> 0, h |-> 0]

FitStart(origW, origH, maxWidth) ==
  [pc |-> "start", origW |-> origW, origH |-> origH, maxWidth |-> maxWidth,
   work |-> NoSize, canvas |-> Canvas(0, 0), fitted |-> NoSize,
   placed |-> NoRect, padRight |-> 0, padBottom |-> 0,
   returned |-> NoSize, crop |-> NoRect, out |-> NoSize, error |-> ""]

notFit == <<split, resl, det, retry, run, rb, blk>>

\* colorizeSegment up to the request: downscale, pick the canvas, fit, pad
FitPrepare ==
  /\ fit.pc = "start"
  /\ \E work \in WorkSizes(fit.origW, fit.origH, fit.maxWidth) :
       IF work.h < 1
       THEN fit' = [fit EXCEPT !.pc = "error", !.work = work,
                               !.error = "Expected positive integer for height"]
       ELSE \E c \in PickOutcomes(work.w, work.h) :
            \E f \in FitSizes(c, work.w, work.h) :
              IF f.w < 1 \/ f.h < 1
              THEN fit' = [fit EXCEPT !.pc = "error", !.work = work, !.canvas = c,
                                      !.fitted = f,
                                      !.error = "Expected positive integer for size"]
              ELSE fit' = [fit EXCEPT !.pc = "requested", !.work = work, !.canvas = c,
                             !.fitted = f,
                             !.padRight = c.aw - f.w,
                             !.padBottom = c.ah - f.h,
                             !.placed = [left |-> 0, top |-> 0,
                                         width |-> f.w, height |-> f.h]]
  /\ UNCHANGED notFit

\* the message of the bitmap library when extract() reaches outside the image
MsgBadExtract == "extract_area: bad extract area"

\* colorizeSegment from the response on: find the image, crop the padding,
\* resize to the working size, restore blacks, resize to the original size
FitResponse(returnedSizes) ==
  /\ fit.pc = "requested"
  /\ \/ fit' = [fit EXCEPT !.pc = "error", !.error = MsgNoImage]
     \/ \E ret \in returnedSizes :
          LET crop == [left |-> 0, top |-> 0,
                       width |-> fit.fitted.w, height |-> fit.fitted.h]
          IN  IF crop.width > ret.w \/ crop.height > ret.h
              THEN fit' = [fit EXCEPT !.pc = "error", !.returned = ret, !.crop = crop,
                                      !.error = MsgBadExtract]
              ELSE fit' = [fit EXCEPT !.pc = "done", !.returned = ret, !.crop = crop,
                             !.out = FinalSize(fit.work.w, fit.work.h, fit.origW, fit.origH)]
  /\ UNCHANGED notFit

\* ------------------------------------------------------------------------
\* Specification of the canvas fitter: segment sizes around the limits of
\* the quality tiers and of the canvases; the service returns the requested
\* canvas, a smaller one or a larger one.
\* ------------------------------------------------------------------------

FitWidths == {1, 2, 3, 100, 383, 384, 512, 800, 1024, 1025, 1200, 2048}

FitHeights == {1, 2, 100, 200, 766, 768, 1024, 1536, 1600, 2400, 4000, 4096}

MaxWidths == {800, 1024, NoMaxWidth}

ReturnedSizes(c) ==
  {[w |-> c.aw, h |-> c.ah], [w |-> c.aw \div 2, h |-> c.ah \div 2],
   [w |-> 2 * c.aw, h |-> 2 * c.ah]}

FitInit ==
  /\ split = Off /\ resl = Off /\ det = Off /\ retry = Off /\ run = Off /\ rb = Off
  /\ blk = Off
  /\ \E origW \in FitWidths : \E origH \in FitHeights : \E maxWidth \in MaxWidths :
       fit = FitStart(origW, origH, maxWidth)

FitReturn == FitResponse(ReturnedSizes(fit.canvas))

FitNext == FitPrepare \/ FitReturn

SpecFit == FitInit /\ [][FitNext]_vars

\* C12: the fitted size never exceeds the chosen canvas, so the right and
\* bottom padding are never negative.
C12_FittedWithinCanvas ==
  fit.pc \in {"requested", "done", "error"} /\ fit.fitted # NoSize =>
    /\ fit.fitted.w <= fit.canvas.aw
    /\ fit.fitted.h <= fit.canvas.ah
    /\ fit.canvas.aw - fit.fitted.w >= 0
    /\ fit.canvas.ah - fit.fitted.h >= 0
    /\ fit.pc # "error" => fit.padRight >= 0 /\ fit.padBottom >= 0

\* a request whose fitted size fills the canvas height and leaves padding
\* on the right
C12_Witness ==
  /\ fit.pc = "requested"
  /\ fit.fitted.h = fit.canvas.ah
  /\ fit.padRight > 0
  /\ fit.work.w # fit.origW

\* the service returned a canvas of the requested size
ReturnedAsRequested ==
  /\ fit.pc \in {"done", "error"}
  /\ fit.returned # NoSize
  /\ fit.returned = [w |-> fit.canvas.aw, h |-> fit.canvas.ah]

\* C13: when the service returns a canvas of the requested size, the crop
\* rectangle is the rectangle the scaled segment was placed in (the canvas
\* without its right and bottom padding), the crop is never rejected, and
\* the final bitmap has the original size, also after a tier downscale.
C13_FitRoundTrip ==
  ReturnedAsRequested =>
    /\ fit.pc = "done"
    /\ fit.crop = fit.placed
    /\ fit.crop.left = 0 /\ fit.crop.top = 0
    /\ fit.crop.width = fit.canvas.aw - fit.padRight
    /\ fit.crop.height = fit.canvas.ah - fit.padBottom
    /\ fit.out = [w |-> fit.origW, h |-> fit.origH]

\* a round trip of a segment that was downscaled for its tier and padded
C13_Witness ==
  /\ fit.pc = "done"
  /\ ReturnedAsRequested
  /\ fit.work.w < fit.origW
  /\ fit.padRight + fit.padBottom > 0
  /\ fit.out = [w |-> fit.origW, h |-> fit.origH]

CanvasPicked == fit.pc # "off" /\ fit.canvas # Canvas(0, 0)

\* the width from which a segment of aspect ratio 0.5 fits the portrait
\* canvas with a scale of at most 2
PortraitMinWidth == ApiCandidates[2].ah \div 4

\* C14 (as claimed): a segment of aspect ratio 0.5, whatever its size, gets
\* the portrait canvas 1024x1536.
C14_HalfRatioPicksPortrait ==
  (CanvasPicked /\ fit.work.h = 2 * fit.work.w) => fit.canvas = Canvas(1024, 1536)

\* C14 (amended): a segment of aspect ratio 0.5 gets the portrait canvas
\* when its width is at least 384; a narrower one, for which every canvas
\* needs a scale above 2 or the portrait canvas alone does, gets the square
\* canvas 1024x1024.
C14_HalfRatioPicksBySize ==
  (CanvasPicked /\ fit.work.h = 2 * fit.work.w) =>
    IF fit.work.w >= PortraitMinWidth
    THEN fit.canvas = Canvas(1024, 1536)
    ELSE fit.canvas = Canvas(1024, 1024)

\* the portrait canvas was picked for a segment of ratio 0.5 at the
\* smallest width that allows it, after a tier downscale
C14_Witness ==
  /\ fit.pc = "requested"
  /\ fit.work.h = 2 * fit.work.w
  /\ fit.canvas = Canvas(1024, 1536)
  /\ fit.work.w \in {PortraitMinWidth, 1024}

\* the square canvas was picked for segments of ratio 0.5
C14_WitnessSquare ==
  /\ fit.pc = "requested"
  /\ fit.work.h = 2 * fit.work.w
  /\ fit.work.w = PortraitMinWidth - 1
  /\ fit.canvas = Canvas(1024, 1024)

\* the error colorizeSegment throws, as withRetry catches it: an Error of
\* the bitmap library has no status and no headers
ThrownError(msg) == [status |-> 0, message |-> msg, retryAfter |-> NoHeader]

\* withRetry gives up on the error of the first attempt and returns null;
\* main then records the segment in failedIndices
ReportedFailed ==
  /\ fit.pc = "error"
  /\ ~isTransient(ThrownError(fit.error))

\* the service answered with an image
ImageReturned == fit.pc \in {"done", "error"} /\ fit.returned # NoSize

\* C21: whatever the size of the canvas the service returns (smaller than,
\* equal to or larger than the requested one), the crop and resize steps
\* give a bitmap of the segment's original size, no error is raised and the
\* segment is not reported as failed.
C21_GeometryMismatchAbsorbed ==
  ImageReturned =>
    /\ fit.pc = "done"
    /\ fit.error = ""
    /\ fit.out = [w |-> fit.origW, h |-> fit.origH]
    /\ ~ReportedFailed

\* the part of C21 the code does keep: a returned canvas that contains the
\* crop rectangle gives a bitmap of the original size without an error
C21_LargeEnoughCanvasAbsorbed ==
  /\ ImageReturned
  /\ fit.returned.w >= fit.fitted.w /\ fit.returned.h >= fit.fitted.h
  => /\ fit.pc = "done"
     /\ fit.out = [w |-> fit.origW, h |-> fit.origH]

\* a returned canvas smaller than the requested one: the crop is rejected
\* and the segment is reported as failed
C21_SmallerCanvasFails ==
  /\ ImageReturned
  /\ fit.returned.w < fit.canvas.aw
  /\ fit.error = MsgBadExtract
  /\ ReportedFailed

\* C15: restoreBlacks applied to an original and to its own result for that
\* original returns that result, pixel for pixel.
C15_RestoreIdempotent ==
  (rb.pc = "done" /\ rb.pass = 2) =>
    /\ Len(rb.out) = Len(rb.first)
    /\ \A i \in 1..Len(rb.first) : rb.out[i] = rb.first[i]

\* a second result for a pair whose first result has restored pixels,
\* among them one that was translucent, and pixels left as colorized
C15_Witness ==
  /\ rb.pc = "done" /\ rb.pass = 2
  /\ \E i \in 1..Len(rb.first) : rb.first[i] = OpaqueBlack
  /\ \E i \in 1..Len(rb.first) : rb.first[i] = Translucent
  /\ \E idx \in Indices(rb.w, rb.h) : OrigTrueBlack(idx) /\ ~RestoreCriteria(idx)

\* ------------------------------------------------------------------------
\* Specification of a run with its side channels: the learned colors, the
\* capture of colors after each colorized segment, and the file names.
\* ------------------------------------------------------------------------

MaxCtxRuns == 3

CtxRuns == {[row |-> RowBlack(StripWidth), n |-> MIN_GAP_HEIGHT + 10],
            [row |-> RowText(StripWidth), n |-> 2 * MIN_SEGMENT_H],
            [row |-> RowArt(StripWidth), n |-> 2 * MIN_SEGMENT_H]}

\* a content-safety rejection (transient) and a response without image
CtxErrors ==
  { [status |-> 0, message |-> MsgSafety,  retryAfter |-> NoHeader],
    [status |-> 0, message |-> MsgNoImage, retryAfter |-> NoHeader] }

\* what captureContext returns
CaptureOutcomes == {<<>>, <<"sky: blue">>, <<"Sky: Blue", "door: red">>}

\* the learned colors on file before the run
ContextFiles == {<<>>, <<"Wall: Mint">>}

\* n input files: page_001.png ...; p1.png ...; page_001.png, page_003.png ...
FileSets(n) ==
  { DefaultFiles(n),
    [k \in 1..n |-> FileName("p", <<k>>, ".png")],
    [k \in 1..n |-> FileName("page_", <<0, 0, 2 * k - 1>>, ".png")] }

RunContextInit ==
  /\ split = Off /\ resl = Off /\ det = Off /\ retry = Off /\ rb = Off /\ fit = Off /\ blk = Off
  /\ \E strip \in SeqsOf(CtxRuns, 1, MaxCtxRuns) :
     \E heights \in SlicingsOf(StripHeight(strip)) :
     \E apiKey \in BOOLEAN :
     \E capture \in BOOLEAN :
     \E contextFile \in ContextFiles :
     \E files \in FileSets(Len(heights)) :
       run = [RunStart(apiKey, strip, heights) EXCEPT
                !.files = files, !.CAPTURE_CONTEXT = capture,
                !.contextFile = contextFile]

CtxAttemptFail ==
  /\ run.pc = "await"
  /\ RetryAttemptFail(CtxErrors)

MainCapturedColors == MainCaptured(CaptureOutcomes)

RunContextNext ==
  \/ MainStart \/ MainStitch \/ MainDetect \/ MainSplit
  \/ MainSkipSegment \/ MainCallWithRetry
  \/ MainCall \/ MainAttemptOk \/ CtxAttemptFail \/ MainDelayElapsed \/ MainAfterRetry
  \/ MainCapturedColors
  \/ MainReassemble \/ MainReslice \/ MainSave

SpecRunContext == RunContextInit /\ [][RunContextNext]_vars

\* C16: at most one external request is in flight; every request is sent
\* when none is in flight and when the results of all earlier segments, and
\* of no other, are collected; the requests follow the segment order, the
\* capture of a segment being its last request; the results are collected
\* in segment order.
C16_SegmentsSequential ==
  run.pc # "off" =>
    /\ run.inflight \in {0, 1}
    /\ \A k \in 1..Len(run.requests) :
         /\ run.requests[k].inflightBefore = 0
         /\ run.requests[k].collected = run.requests[k].i - 1
    /\ \A k \in 1..(Len(run.requests) - 1) :
         /\ run.requests[k].i <= run.requests[k + 1].i
         /\ run.requests[k].kind = "capture" =>
              run.requests[k].i < run.requests[k + 1].i
    /\ Len(run.colorizedSegments) = Len(run.history)
    /\ \A k \in 1..Len(run.history) : run.history[k].i = k

\* a finished run whose first segment was colorized and captured and whose
\* second segment needed a second call
C16_Witness ==
  /\ run.pc = "done"
  /\ Len(run.requests) >= 5
  /\ run.requests[1].i = 1 /\ run.requests[2].kind = "capture"
  /\ run.requests[3].i = 2 /\ run.requests[4].i = 2
  /\ run.requests[4].kind = "colorize"

\* C17 (as claimed): the colors learned from the result of segment i are in
\* the prompt sent with every colorization request of a later segment.
C17_LearnedColorsFeedForward ==
  run.pc # "off" =>
    \A k \in 1..Len(run.requests) :
      \A h \in 1..Len(run.history) :
        (run.requests[k].kind = "colorize" /\ run.history[h].i < run.requests[k].i) =>
          \A c \in 1..Len(run.history[h].learned) :
            \E j \in 1..Len(run.requests[k].prompt.learned) :
              run.requests[k].prompt.learned[j] = run.history[h].learned[c]

\* the per-segment loop has ended
LoopEnded ==
  \/ run.pc \in {"reslice", "save", "done", "failed"}
  \/ run.pc = "loop" /\ run.i > Len(run.segments)

\* the collected entry k holds a bitmap returned by colorizeSegment
IsColorizedEntry(k) == "kind" \in DOMAIN run.colorizedSegments[k].buffer

\* the collected entry k is the original bitmap and a call was made for it
IsFallbackEntry(k) ==
  /\ run.colorizedSegments[k].buffer = run.segments[k].buffer
  /\ \E c \in 1..Len(run.calls) : run.calls[c] = k

\* the collected entry k is the original bitmap and no call was made for it
IsSkippedEntry(k) ==
  /\ run.colorizedSegments[k].buffer = run.segments[k].buffer
  /\ \A c \in 1..Len(run.calls) : run.calls[c] # k

\* C18: when the loop has ended one entry per segment is collected, in
\* order and with the segment's height; every segment is colorized, skipped
\* or fallen back, the three counts add up to the number of segments, and
\* the reported indices are the 1-based indices of the fallen-back segments.
C18_DispositionsAddUp ==
  (run.pc # "off" /\ LoopEnded) =>
    LET n == Len(run.segments) IN
      /\ Len(run.colorizedSegments) = n
      /\ \A k \in 1..n : run.colorizedSegments[k].height = run.segments[k].height
      /\ run.skippedSegments = Cardinality({k \in 1..n : IsSkippedEntry(k)})
      /\ {run.failedIndices[j] : j \in 1..Len(run.failedIndices)}
           = {k \in 1..n : IsFallbackEntry(k)}
      /\ Len(run.failedIndices) = Cardinality({k \in 1..n : IsFallbackEntry(k)})
      /\ run.skippedSegments + Len(run.failedIndices)
           + Cardinality({k \in 1..n : IsColorizedEntry(k)}) = n

\* a finished run with a skipped segment and a fallen-back second segment
C18_Witness ==
  /\ run.pc = "done"
  /\ Len(run.segments) = 2
  /\ run.skippedSegments = 1
  /\ run.failedIndices = <<2>>

\* a finished run with a colorized segment and a fallen-back first segment
C18_WitnessColorized ==
  /\ run.pc = "done"
  /\ run.failedIndices = <<1>>
  /\ Len(run.colorizedSegments) = 2
  /\ IsColorizedEntry(2)

\* C19: without the credential, or without input files, the run ends in an
\* error without stitching, without any external request and without
\* writing an output slice.
C19_InputErrorsFatal ==
  (run.pc # "off" /\ (~run.apiKey \/ Len(run.files) = 0)) =>
    /\ run.pc \in {"start", "failed"}
    /\ run.pc = "failed" =>
         run.error \in {"Missing OPENAI_API_KEY in .env", "No PNG files found"}
    /\ run.totalH = 0 /\ run.segments = <<>>
    /\ run.apiCalls = 0 /\ run.requests = <<>> /\ run.inflight = 0
    /\ run.written = <<>> /\ run.writtenNames = <<>>

\* a run with input files that failed for want of the credential
C19_Witness ==
  /\ run.pc = "failed"
  /\ ~run.apiKey /\ Len(run.files) = 2
  /\ run.error = "Missing OPENAI_API_KEY in .env"

\* a run with the credential that failed for want of input files
C19_WitnessNoInput ==
  /\ run.pc = "failed"
  /\ run.apiKey /\ Len(run.files) = 0
  /\ run.error = "No PNG files found"

\* C20 (as claimed): the names of the files written are the names of the
\* input files.
C20_OutputNamesAreInputNames ==
  run.pc = "done" =>
    {run.writtenNames[k] : k \in 1..Len(run.writtenNames)}
      = {run.files[k] : k \in 1..Len(run.files)}

\* ------------------------------------------------------------------------
\* Specification of the flood fill of restoreBlacks: every pattern of
\* true-black and gray pixels on a grid of FloodW x FloodH pixels, on a
\* single row and on a single column of FloodLen pixels.  The loops of
\* restoreBlacks are synchronous code: once called, it runs to its end.
\* ------------------------------------------------------------------------

FloodW == 4

FloodH == 3

FloodLen == 6

FloodShapes ==
  {[w |-> FloodW, h |-> FloodH], [w |-> FloodLen, h |-> 1], [w |-> 1, h |-> FloodLen]}

FloodInit ==
  /\ split = Off /\ resl = Off /\ det = Off /\ retry = Off /\ run = Off /\ fit = Off /\ blk = Off
  /\ \E shape \in FloodShapes :
     \E orig \in [1..(shape.w * shape.h) -> {OBlack, OGray}] :
       rb = RbStart(shape.w, shape.h, orig, [i \in 1..(shape.w * shape.h) |-> Tint])

FloodNext == RbBuildMaps \/ RbFloodStep \/ RbRestore

SpecFlood == FloodInit /\ [][FloodNext]_vars /\ WF_vars(FloodNext)

\* the while loop of the flood fill has ended
FloodTerminated ==
  \/ rb.pc = "flood" /\ Len(rb.queue) = 0
  \/ rb.pc = "done"

\* C22: once the flood fill has terminated, the pixels marked
\* edge-connected are exactly the true-black pixels of the original joined
\* to a true-black pixel of the image border by a 4-connected path of
\* true-black pixels (also on images one pixel wide or high), and the flood
\* fill terminates for every image.
C22_FloodFillMarksBorderRegion ==
  /\ [](FloodTerminated => rb.edgeConnected = BorderRegion)
  /\ <>FloodTerminated

\* the pixels of the border that are neighbours of idx
BorderNeighbours(idx) ==
  {j \in Indices(rb.w, rb.h) : Adjacent(idx, j) /\ OnBorder(j)}

\* a terminated flood fill that marked an inner pixel none of whose border
\* neighbours is true-black: it was reached through another inner pixel
C22_Witness ==
  /\ FloodTerminated /\ rb.pc = "done"
  /\ \E idx \in rb.edgeConnected :
       /\ ~OnBorder(idx)
       /\ \A j \in BorderNeighbours(idx) : ~OrigTrueBlack(j)

\* a terminated flood fill that left a true-black pixel unmarked
C22_WitnessEnclosed ==
  /\ rb.pc = "done"
  /\ \E idx \in Indices(rb.w, rb.h) : OrigTrueBlack(idx) /\ idx \notin rb.edgeConnected

\* a terminated flood fill on an image one pixel wide with pixels of both kinds
C22_WitnessColumn ==
  /\ rb.pc = "done" /\ rb.w = 1
  /\ rb.edgeConnected # {} /\ rb.edgeConnected # Indices(rb.w, rb.h)

\* ------------------------------------------------------------------------
\* Specification of main up to the split: strips of up to MaxCutRuns runs of
\* black or art rows, arriving as one, two or three input slices whose
\* boundaries fall anywhere, also inside a dark band.
\* ------------------------------------------------------------------------

MaxCutRuns == 4

CutRows == {RowBlack(StripWidth), RowArt(StripWidth)}

CutRunLengths == {MIN_GAP_HEIGHT - 1, MIN_GAP_HEIGHT + 10, 2 * MIN_SEGMENT_H}

\* how a strip of height h arrives as input slices
CutSlicings(h) ==
  {<<h>>, <<h \div 2, h - (h \div 2)>>, <<h \div 3, h \div 3, h - 2 * (h \div 3)>>}

CutInit ==
  /\ split = Off /\ resl = Off /\ det = Off /\ retry = Off /\ rb = Off /\ fit = Off /\ blk = Off
  /\ \E strip \in SeqsOf([row : CutRows, n : CutRunLengths], 1, MaxCutRuns) :
     \E heights \in CutSlicings(StripHeight(strip)) :
       run = RunStart(TRUE, strip, heights)

CutNext == MainStart \/ MainStitch \/ MainDetect \/ MainSplit

SpecCut == CutInit /\ [][CutNext]_vars

\* the rows of the run r of the strip are within the tolerance of a safe row
RunWithinTolerance(r) ==
  NonDarkCount(run.strip[r].row) * 100
    <= EDGE_TOLERANCE_PCT * RowWidth(run.strip[r].row)

FirstRowOf(r) == SumSeq([k \in 1..(r - 1) |-> run.strip[k].n])

LastRowOf(r) == FirstRowOf(r) + run.strip[r].n - 1

\* the runs a..b of the strip are a maximal stretch of safe rows of at
\* least MIN_GAP_HEIGHT rows
IsBand(a, b) ==
  /\ a <= b
  /\ \A r \in a..b : RunWithinTolerance(r)
  /\ a = 1 \/ ~RunWithinTolerance(a - 1)
  /\ b = Len(run.strip) \/ ~RunWithinTolerance(b + 1)
  /\ LastRowOf(b) - FirstRowOf(a) + 1 >= MIN_GAP_HEIGHT

Bands ==
  {ab \in (1..Len(run.strip)) \X (1..Len(run.strip)) : IsBand(ab[1], ab[2])}

\* floor((s + e) / 2) of every band [s, e]
BandMidpoints == {(FirstRowOf(ab[1]) + LastRowOf(ab[2])) \div 2 : ab \in Bands}

PartStarts == (BandMidpoints \cup {0}) \ {run.totalH}

\* the end of the part that starts at row b: the next midpoint or totalH
PartEnd(b) ==
  CHOOSE c \in BandMidpoints \cup {run.totalH} :
    c > b /\ \A d \in BandMidpoints \cup {run.totalH} : d > b => c <= d

AllPartsTall == \A b \in PartStarts : PartEnd(b) - b >= MIN_SEGMENT_H

\* the input slices have a boundary strictly inside a band
SliceBoundaryInBand ==
  \E j \in 1..(Len(run.heights) - 1) : \E ab \in Bands :
    LET y == SumSeq(SubSeq(run.heights, 1, j))
    IN  FirstRowOf(ab[1]) < y /\ y <= LastRowOf(ab[2])

\* C23: detection followed by splitting cuts the stitched strip at the
\* midpoint floor((s + e) / 2) of every band [s, e] of at least
\* MIN_GAP_HEIGHT safe rows and nowhere else, wherever the boundaries of the
\* input slices fall; when the k + 1 parts between the midpoints are all at
\* least MIN_SEGMENT_H tall there are exactly k + 1 segments, bounded by the
\* midpoints (for one band: heights floor((s + e) / 2) and totalH minus it).
C23_CutsAtBandMidpoints ==
  run.pc = "loop" =>
    /\ Len(run.splitPoints) = Cardinality(Bands)
    /\ {run.splitPoints[k].midPoint : k \in 1..Len(run.splitPoints)} = BandMidpoints
    /\ AllPartsTall =>
         /\ Len(run.segments) = Cardinality(Bands) + 1
         /\ {[startY |-> run.segments[k].startY, height |-> run.segments[k].height] :
               k \in 1..Len(run.segments)}
              = {[startY |-> b, height |-> PartEnd(b) - b] : b \in PartStarts}
         /\ \A k \in 1..(Len(run.segments) - 1) :
              run.segments[k].startY + run.segments[k].height = run.segments[k + 1].startY
         /\ Cardinality(Bands) = 1 =>
              \E m \in BandMidpoints :
                /\ run.segments[1].height = m
                /\ run.segments[2].height = run.totalH - m

\* three input slices with a boundary inside the only band, a band of 40
\* rows: one cut, two segments
C23_Witness ==
  /\ run.pc = "loop"
  /\ Len(run.heights) = 3
  /\ SliceBoundaryInBand
  /\ Cardinality(Bands) = 1
  /\ AllPartsTall
  /\ Len(run.segments) = 2
  /\ run.splitPoints[1].height = MIN_GAP_HEIGHT + 10

\* two bands, three segments
C23_WitnessTwoBands ==
  /\ run.pc = "loop"
  /\ Cardinality(Bands) = 2
  /\ AllPartsTall
  /\ Len(run.segments) = 3

\* ------------------------------------------------------------------------
\* Specification of isBlankSegment alone: bitmaps of BlankTotal pixels, given
\* as runs of equal pixels: dark pixels, pixels at or next to the brightness
\* level, and other pixels, with up to MaxNonDark pixels that are not dark.
\* ------------------------------------------------------------------------

BlankTotal == 100

MaxNonDark == 20

PxAtDark == <<DARK_THRESHOLD, DARK_THRESHOLD - 1, DARK_THRESHOLD - 1>>

PxAtLevel == <<BRIGHT_LEVEL, BRIGHT_LEVEL, BRIGHT_LEVEL>>

PxAboveLevel == <<BRIGHT_LEVEL + 1, BRIGHT_LEVEL + 1, BRIGHT_LEVEL + 1>>

PxPartlyAtLevel == <<BRIGHT_LEVEL + 1, BRIGHT_LEVEL, BRIGHT_LEVEL + 1>>

BlankStart(pixels) == [pc |-> "start", pixels |-> pixels, result |-> "none"]

\* the pixel loop and the classification of isBlankSegment
BlankClassify ==
  /\ blk.pc = "start"
  /\ blk' = [blk EXCEPT !.pc = "done",
               !.result = BlankReason(RowWidth(blk.pixels), RowDarkCount(blk.pixels),
                                      RowBrightCount(blk.pixels))]
  /\ UNCHANGED <<split, resl, det, retry, run, rb, fit>>

BlankInit ==
  /\ split = Off /\ resl = Off /\ det = Off /\ retry = Off /\ run = Off /\ rb = Off
  /\ fit = Off
  /\ \E nonDark \in 0..MaxNonDark : \E light \in 0..nonDark :
     \E pxDark \in {PxBlack, PxNearDark} :
     \E pxLight \in {PxAtLevel, PxAboveLevel, PxPartlyAtLevel, PxWhite} :
     \E pxOther \in {PxGray, PxAtDark} :
       blk = BlankStart(<<[px |-> pxDark, n |-> BlankTotal - nonDark],
                          [px |-> pxLight, n |-> light],
                          [px |-> pxOther, n |-> nonDark - light]>>)

BlankNext == BlankClassify

SpecBlank == BlankInit /\ [][BlankNext]_vars

\* the number of pixels of the bitmap that satisfy P
CountPixels(P(_)) ==
  SumSeq([k \in 1..Len(blk.pixels) |->
            IF P(blk.pixels[k].px) THEN blk.pixels[k].n ELSE 0])

AnyPixel(px) == TRUE

DarkPixel(px) == \A ch \in 1..3 : px[ch] < DARK_THRESHOLD

\* not dark and every colour channel >= 200
NearWhiteFrom200(px) == ~DarkPixel(px) /\ \A ch \in 1..3 : px[ch] >= 200

\* not dark and every colour channel > 200
NearWhiteAbove200(px) == ~DarkPixel(px) /\ \A ch \in 1..3 : px[ch] > 200

DarkFractionText ==
  /\ 100 * CountPixels(DarkPixel) >= 85 * CountPixels(AnyPixel)
  /\ 100 * CountPixels(DarkPixel) < 98 * CountPixels(AnyPixel)

NonDarkPixels == CountPixels(AnyPixel) - CountPixels(DarkPixel)

\* C24 (as claimed): the result is text-on-black exactly when the dark
\* fraction is at least 0.85 and below 0.98 and at least 60% of the non-dark
\* pixels have every colour channel >= 200.
C24_TextOnBlackFrom200 ==
  blk.pc = "done" =>
    (blk.result = "text-on-black" <=>
       /\ DarkFractionText
       /\ 100 * CountPixels(NearWhiteFrom200) >= 60 * NonDarkPixels)

\* C24 (amended): the result is text-on-black exactly when the dark
\* fraction is at least 0.85 and below 0.98 and at least 60% of the non-dark
\* pixels have every colour channel > 200; it is blank exactly when the dark
\* fraction is at least 0.98; so never both for one segment.
C24_TextOnBlackAbove200 ==
  blk.pc = "done" =>
    /\ blk.result = "text-on-black" <=>
         /\ DarkFractionText
         /\ 100 * CountPixels(NearWhiteAbove200) >= 60 * NonDarkPixels
    /\ blk.result = "blank" <=>
         100 * CountPixels(DarkPixel) >= 98 * CountPixels(AnyPixel)
    /\ blk.result \in {"blank", "text-on-black", "none"}

\* a bitmap at the lower limit of the dark fraction whose non-dark pixels
\* are bright at exactly the 60% limit: text-on-black
C24_Witness ==
  /\ blk.pc = "done" /\ blk.result = "text-on-black"
  /\ 100 * CountPixels(DarkPixel) = 85 * CountPixels(AnyPixel)
  /\ 100 * CountPixels(NearWhiteAbove200) = 60 * NonDarkPixels

\* a bitmap whose non-dark pixels are all exactly at the level 200: not
\* text-on-black
C24_WitnessAtLevel ==
  /\ blk.pc = "done" /\ blk.result = "none"
  /\ DarkFractionText
  /\ CountPixels(NearWhiteFrom200) = NonDarkPixels
  /\ CountPixels(NearWhiteAbove200) = 0

\* C25: for every strip with totalH > 0 and every list of cut rows,
\* splitAtPoints returns at least one segment (also when the only segment,
\* or every segment, is shorter than MIN_SEGMENT_H), so that reassembly never
\* runs on an empty list of segments.
C25_AtLeastOneSegment ==
  /\ SplitDone /\ split.totalH > 0 => Len(split.segments) >= 1
  /\ split.pc = "reassembled" =>
       /\ Len(split.reassembled.composites) >= 1
       /\ split.reassembled.height > 0

\* splitAtPoints returned no segment for a strip of one part shorter than
\* MIN_SEGMENT_H, and the strip reassembled from nothing has no rows
C25_EmptySegmentList ==
  /\ split.pc = "reassembled"
  /\ split.totalH > 0 /\ split.totalH < MIN_SEGMENT_H
  /\ split.splitPoints = <<>>
  /\ split.segments = <<>>
  /\ split.reassembled.height = 0

====
